---- MODULE Spec2Model ----
(***************************************************************************)
(* The staged URL -> content pipeline of package pipeline (Pipeline.Run    *)
(* and the goroutines it starts), as a state machine.  Channels are        *)
(* bounded FIFO buffers with a closed flag; every goroutine is a process   *)
(* with a program counter; a Go select with several ready cases is a       *)
(* nondeterministic choice among them.                                     *)
(***************************************************************************)
EXTENDS Integers, Sequences, FiniteSets, Bags, TLC

\* ------------------------------------------------------------------ bounds
MaxSteps == 3        \* longest pipeline: len(p.steps) ranges over 0..MaxSteps
MaxWideSteps == 2    \* longest pipeline that is run with every worker count and fault
MaxWorkers == 2      \* largest WorkerCount of a step or of the consumer
MaxGen == 2          \* longest URL list the first step's producer returns
MaxFanout == 2       \* longest URL list a Fetch of a later step returns
MaxTotalWorkers == 4 \* largest sum of the WorkerCounts of a pipeline
MaxFaults == 1       \* most misconfigured parts (missing adapters) of a pipeline
MaxFilters == 2      \* longest filter list of a BasicUrlFetcher
MaxFilterURLs == 2   \* number of distinct URLs the filters tell apart
MaxRaw == 3          \* longest URL list the fetcher under a BasicUrlFetcher returns
MaxPage == 21        \* most pages of a site that a PageRangeGenerator pages through
MaxPipelinePage == 10 \* most pages of a site behind the Generator of a pipeline
MaxLocs == 2         \* most <url> entries of a regular sitemap
MaxBody == 2         \* most pieces of a response body
MaxArticles == 101   \* most articles of the Mongo collection
MaxReplicaFaults == 1 \* most database failures during a replication
MaxURLFetchers == 2  \* most URL fetchers of a TwoLevelManager
MaxContentWorkers == 2 \* most content workers of a TwoLevelManager
MaxPagesPerBatch == 2 \* most pages of a batch of a TwoLevelManager
MaxPageLimit == 3    \* largest MaxPages of a TwoLevelManager
MaxSitePages == 3    \* most pages with articles of a paginated site
MaxJobs == 3         \* most URLs handed to Manager.ProcessURLs
MaxManagerWorkers == 2 \* most workers of a Manager
MaxEpisodes == 3     \* most episode URLs of a sitemap
MaxEpisodeWorkers == 2 \* most workers of the podcast transcript service
MaxSitemaps == 2     \* most sitemaps of a site whose sitemaps refer to one another
MaxCallDepth == 4    \* deepest nesting of ParseFromURL that is followed
MaxSitemapRefs == 2  \* most <sitemap> references of a sitemap index
MaxSitemapDepth == 2 \* most levels of sitemap indexes above a regular sitemap

\* The URL strings that flow through the pipeline; an adapter that returns k URLs
\* returns the first k of them.
URLNames == <<"u1", "u2", "u3", "u4">>

URLList(k) == SubSeq(URLNames, 1, k)

\* Buffer size of channels[0] (createChannels).
FirstChannelBuffer == 100

\* ------------------------------------------------------------------- state
VARIABLES
  steps,            \* p.steps: sequence of PipelineStep (steps[i+1] is Go's steps[i])
  contentConsumer,  \* p.contentConsumer
  ctxDone,          \* ctx.Done() is closed
  runPc,            \* position of the goroutine that called Run
  runI,             \* loop index of startSubsequentStepWorkers
  runErr,           \* what Run returned: "none" (not yet), "nil", or the error text
  chanMade,         \* ids of the channels made so far
  chanBuf,          \* channel id -> buffered URLs
  chanClosed,       \* channel id -> closed
  wg,               \* the WaitGroup of Run
  stepWg,           \* step index -> the stepWg of startStepWorkers
  first,            \* the goroutine of startFirstStep
  sw,               \* <<step, workerID>> -> goroutine of startStepWorker
  closer,           \* step index -> goroutine of closeChannelWhenDone
  cw,               \* workerID -> goroutine of startContentConsumer
  hist,             \* history of the run (observations only, never read by the code)
  filters,          \* BasicUrlFetcher.filters of the fetcher that feeds the consumer
  bf,               \* a call of BasicUrlFetcher.Fetch and of filter.FilterURLs
  gen,              \* a call of PageRangeGenerator.Generate and the site it pages through
  store,            \* the article collection behind the ContentSaver, over two runs
  sm,               \* a call of ParseFromURL of the sitemap parsers and the documents it meets
  cp,               \* a call of HTTPContentProcessor.ProcessContent and the response it gets
  rep,              \* a call of Replicator.ReplicateArticlesMongoToPostgres and the two databases
  tl,               \* a call of TwoLevelManager.ProcessPaginatedPages and its goroutines
  mgr,              \* a call of Manager.ProcessURLs and its goroutines
  pod               \* a call of processEpisodeURLsInParallel and its goroutines

vars ==
  <<steps, contentConsumer, ctxDone, runPc, runI, runErr, chanMade, chanBuf,
    chanClosed, wg, stepWg, first, sw, closer, cw, hist, filters, bf, gen, store,
    sm, cp, rep, tl, mgr, pod>>

\* The calls of the components that are exercised on their own, outside a run.
standalone == <<cp, rep, tl, mgr, pod>>

\* What a call of one of them leaves alone: the pipeline, its adapters and the
\* calls of the other components.
exceptCp == <<steps, contentConsumer, filters, bf, gen, store, sm, rep, tl, mgr, pod>>

exceptRep == <<steps, contentConsumer, filters, bf, gen, store, sm, cp, tl, mgr, pod>>

exceptTl == <<steps, contentConsumer, filters, bf, gen, store, sm, cp, rep, mgr, pod>>

exceptMgr == <<steps, contentConsumer, filters, bf, gen, store, sm, cp, rep, tl, pod>>

exceptPod == <<steps, contentConsumer, filters, bf, gen, store, sm, cp, rep, tl, mgr>>

\* What no step of Run and of its goroutines changes: the pipeline description and
\* the adapters plugged into it.
config == <<steps, contentConsumer, filters, bf, gen, store, sm, standalone>>

\* The variables of a run of the pipeline.
runVars ==
  <<ctxDone, runPc, runI, runErr, chanMade, chanBuf, chanClosed, wg, stepWg, first,
    sw, closer, cw, hist>>

\* ------------------------------------------------------- pipeline description
NumSteps == Len(steps)

\* Go's p.steps[i], i counted from 0.
Step(i) == steps[i + 1]

\* The channel contentChan; channels[i] has id i.
ContentChan == -1

ChanIds == (0 .. MaxSteps - 1) \cup {ContentChan}

LaterSteps == 1 .. MaxSteps - 1

WorkerIds == 0 .. MaxWorkers - 1

FirstStepConfigs ==
  [WorkerCount : 1 .. MaxWorkers, Generator : BOOLEAN, Fetcher : BOOLEAN]

LaterStepConfigs ==
  [WorkerCount : 1 .. MaxWorkers, Generator : {FALSE}, Fetcher : BOOLEAN]

ConsumerConfigs ==
  [WorkerCount : 1 .. MaxWorkers, ContentProcessor : BOOLEAN, ContentSaver : BOOLEAN]

StepLists ==
  {<<>>} \cup
  UNION {{<<f>> \o rest : f \in FirstStepConfigs, rest \in [1 .. k -> LaterStepConfigs]} :
           k \in 0 .. MaxSteps - 1}

RECURSIVE SumWorkerCount(_)
SumWorkerCount(ss) ==
  IF ss = <<>> THEN 0 ELSE Head(ss).WorkerCount + SumWorkerCount(Tail(ss))

\* The parts of a pipeline that the data model forbids: a first step without
\* exactly one producer, a later step without a Fetcher, a consumer without its
\* processor or without its saver.
Faults(ss, cc) ==
  Cardinality({k \in 1 .. Len(ss) :
                 IF k = 1 THEN ss[k].Generator = ss[k].Fetcher ELSE ~ss[k].Fetcher})
  + (IF cc.ContentProcessor THEN 0 ELSE 1)
  + (IF cc.ContentSaver THEN 0 ELSE 1)

\* The pipelines the model is run on.
Pipelines ==
  {p \in StepLists \X ConsumerConfigs :
     /\ Len(p[1]) <= MaxWideSteps
     /\ SumWorkerCount(p[1]) + p[2].WorkerCount <= MaxTotalWorkers
     /\ Faults(p[1], p[2]) <= MaxFaults}

\* The chains: the pipelines of one to MaxSteps steps that satisfy the data model
\* and have one worker in every later step and in the consumer.
ChainPipelines ==
  {p \in StepLists \X ConsumerConfigs :
     /\ Len(p[1]) >= 1
     /\ Faults(p[1], p[2]) = 0
     /\ p[1][1].WorkerCount = 1
     /\ SumWorkerCount(p[1]) + p[2].WorkerCount = Len(p[1]) + 1}


\* ------------------------------------------------------------------ channels
\* createChannels: the buffer size of each channel.
bufferSize(c) ==
  IF c = ContentChan THEN contentConsumer.WorkerCount * 2
  ELSE IF c = 0 THEN FirstChannelBuffer
  ELSE Step(c).WorkerCount * 2

\* createChannels: channels[0 .. len(steps)-1] and contentChan.
createChannels == (0 .. NumSteps - 1) \cup {ContentChan}

\* Run: the channels made by a call of Run (none when it rejects the pipeline).
ChannelsMadeEagerly == createChannels

ChannelsMadeByRun == IF NumSteps = 0 THEN {} ELSE createChannels

\* getOutputChannelForStep.
getOutputChannelForStep(stepIndex) ==
  IF stepIndex = NumSteps - 1 THEN ContentChan ELSE stepIndex

\* startFirstStepWorker: the output channel of the first step.
firstStepOutput == IF NumSteps = 1 THEN ContentChan ELSE 0

\* startSubsequentStepWorkers: inputChan of step i >= 1.
InputChanAlwaysFirst(i) == 0

inputChanOfStep(i) == i - 1

\* The send case of a select is ready: room in the buffer (a send on a closed
\* channel is ready too, and panics).
CanSendAlways(c) == TRUE

CanSend(c) == chanClosed[c] \/ Len(chanBuf[c]) < bufferSize(c)

\* The receive case of a select yields a value.
CanRecv(c) == chanBuf[c] # <<>>

\* The receive case of a select yields ok = false: closed and drained.
ClosedSeen(c) == chanClosed[c]

RecvNotOk(c) == chanClosed[c] /\ chanBuf[c] = <<>>

\* The buffer that a receive leaves behind.
AfterPeek(buf) == buf

AfterRecv(buf) == Tail(buf)

\* The case "<-ctx.Done()" of the select around a receive (startStepWorker,
\* startContentConsumer) is ready.
RecvSelectCtxDone == ctxDone

\* ------------------------------------------------------------------- history
One(u) == SetToBag({u})

HistSend(h, c, u) ==
  [h EXCEPT !.sent[c] = @ (+) One(u),
            !.sendOnClosed = @ \/ chanClosed[c]]

HistRecv(h, c, u) == [h EXCEPT !.rcvd[c] = @ (+) One(u)]

\* The same, with the step that sends or receives (the consumer counts as the
\* step after the last one).
HistSendBy(h, c, u, i) == [HistSend(h, c, u) EXCEPT !.sentBy[c] = @ \cup {i}]

HistRecvBy(h, c, u, i) == [HistRecv(h, c, u) EXCEPT !.rcvdBy[c] = @ \cup {i}]

HistClose(h, c) == [h EXCEPT !.closes[c] = @ + 1]

InitHist ==
  [sent |-> [c \in ChanIds |-> EmptyBag],
   rcvd |-> [c \in ChanIds |-> EmptyBag],
   sentBy |-> [c \in ChanIds |-> {}],
   rcvdBy |-> [c \in ChanIds |-> {}],
   closes |-> [c \in ChanIds |-> 0],
   sendOnClosed |-> FALSE,
   cancelledAtStart |-> FALSE,
   started |-> 0,
   exited |-> 0,
   generate |-> 0,
   fetchFirst |-> 0,
   fetchFirstArgs |-> {},
   fetch |-> 0,
   fetched |-> [c \in ChanIds |-> EmptyBag],
   fetchFailed |-> FALSE,
   filterFailed |-> FALSE,
   filterErrorWithResult |-> FALSE,
   emitOnFetchError |-> FALSE,
   firstErr |-> FALSE,
   saveFailed |-> FALSE,
   processed |-> EmptyBag,
   processedOk |-> 0,
   saves |-> 0]

\* -------------------------------------------------------------------- Init
NoURL == ""

IdleStepWorker == [pc |-> "idle", url |-> NoURL, out |-> <<>>]

IdleContentWorker == [pc |-> "idle", url |-> NoURL]

\* ----------------------------------------------- BasicUrlFetcher and filters
\* The URLs that filters tell apart.
FilterDomain == {URLNames[k] : k \in 1 .. MaxFilterURLs}

\* A UrlFilter, by what ShouldKeep returns: an error for the URLs in fails, false
\* for those in rejects, true for every other URL.
UrlFilters ==
  {f \in [rejects : SUBSET FilterDomain, fails : SUBSET FilterDomain] :
     f.rejects \cap f.fails = {}}

\* NewAlreadyFetchedFilter(fetchedURLs) and its ShouldKeep: false exactly for the
\* URLs of the set, never an error.
AlreadyFetchedFilter(fetchedURLs) == [rejects |-> fetchedURLs, fails |-> {}]

\* UrlFilter.ShouldKeep(ctx, url): "keep", "drop" or "err".
ShouldKeepAlways(f, u) == "keep"

ShouldKeep(f, u) ==
  IF u \in f.fails THEN "err" ELSE IF u \in f.rejects THEN "drop" ELSE "keep"

FilterLists == UNION {[1 .. n -> UrlFilters] : n \in 0 .. MaxFilters}

\* What the fetcher under a BasicUrlFetcher returns: Locations, some of them empty.
RawLists == UNION {[1 .. n -> FilterDomain \cup {NoURL}] : n \in 0 .. MaxRaw}

\* extractLocations: the non-empty Locations, in order.
RECURSIVE extractLocations(_)
extractLocations(urls) ==
  IF urls = <<>> THEN <<>>
  ELSE (IF Head(urls) # NoURL THEN <<Head(urls)>> ELSE <<>>) \o extractLocations(Tail(urls))

\* shouldKeepURL, from filter j on: the filters are asked in list order and the
\* first that does not return true ends the loop.  calls lists the invocations.
RECURSIVE shouldKeepAsksAll(_, _, _)
shouldKeepAsksAll(fs, u, j) ==
  IF j > Len(fs) THEN [keep |-> TRUE, err |-> FALSE, calls |-> <<>>]
  ELSE LET rest == shouldKeepAsksAll(fs, u, j + 1)
           v == ShouldKeep(fs[j], u) IN
    [keep |-> v = "keep" /\ rest.keep, err |-> v = "err" \/ rest.err,
     calls |-> << <<j, u>> >> \o rest.calls]

RECURSIVE shouldKeepFrom(_, _, _)
shouldKeepFrom(fs, u, j) ==
  IF j > Len(fs) THEN [keep |-> TRUE, err |-> FALSE, calls |-> <<>>]
  ELSE IF ShouldKeep(fs[j], u) = "err"
    THEN [keep |-> FALSE, err |-> TRUE, calls |-> << <<j, u>> >>]
  ELSE IF ShouldKeep(fs[j], u) = "drop"
    THEN [keep |-> FALSE, err |-> FALSE, calls |-> << <<j, u>> >>]
  ELSE [shouldKeepFrom(fs, u, j + 1) EXCEPT !.calls = << <<j, u>> >> \o @]

shouldKeepURL(fs, u) == shouldKeepFrom(fs, u, 1)

\* The loop of applyFilters (and of FilterURLs) over the URLs: a filter error
\* ends it with a nil list.
RECURSIVE filterLoopKeepsOnError(_, _, _, _)
filterLoopKeepsOnError(fs, urls, kept, calls) ==
  IF urls = <<>> THEN [urls |-> kept, isNil |-> FALSE, err |-> FALSE, calls |-> calls]
  ELSE LET k == shouldKeepURL(fs, Head(urls)) IN
    IF k.err THEN [urls |-> kept, isNil |-> FALSE, err |-> TRUE, calls |-> calls \o k.calls]
    ELSE filterLoopKeepsOnError(fs, Tail(urls),
                                IF k.keep THEN Append(kept, Head(urls)) ELSE kept,
                                calls \o k.calls)

RECURSIVE filterLoop(_, _, _, _)
filterLoop(fs, urls, kept, calls) ==
  IF urls = <<>> THEN [urls |-> kept, isNil |-> FALSE, err |-> FALSE, calls |-> calls]
  ELSE LET k == shouldKeepURL(fs, Head(urls)) IN
    IF k.err THEN [urls |-> <<>>, isNil |-> TRUE, err |-> TRUE, calls |-> calls \o k.calls]
    ELSE filterLoop(fs, Tail(urls),
                    IF k.keep THEN Append(kept, Head(urls)) ELSE kept,
                    calls \o k.calls)

\* applyFilters.
applyFilters(fs, result) ==
  IF Len(fs) = 0 THEN [urls |-> result, isNil |-> FALSE, err |-> FALSE, calls |-> <<>>]
  ELSE filterLoop(fs, result, <<>>, <<>>)

\* filter.FilterURLs.
FilterURLs(urls, fs) == filterLoop(fs, urls, <<>>, <<>>)

\* BasicUrlFetcher.Fetch, given what the fetcher under it returned.
Fetch(under, fs) ==
  IF under.err THEN [urls |-> <<>>, isNil |-> TRUE, err |-> TRUE, calls |-> <<>>]
  ELSE applyFilters(fs, extractLocations(under.urls))

\* No call of Fetch is modelled on its own.
IdleFetch == [pc |-> "idle"]

\* ------------------------------------------------------ PageRangeGenerator
\* shouldStopPagination, line 347: the content of every tenth page is checked.
ContentCheckEvery == 10

\* NewPageRangeGenerator(baseURL, pagePattern, ...): the base URL, and the text
\* of the pattern before and after its %d.
PageBaseURL == "https://site.com"

PagePattern == <<"/page/", "">>

\* buildPageURL: baseURL + fmt.Sprintf(pagePattern, pageNum).
buildPageURL(pageNum) ==
  PageBaseURL \o (PagePattern[1] \o ToString(pageNum) \o PagePattern[2])

\* A paginated site of at most n pages, by what the generator's requests meet:
\* HEAD answers 200 for the pages 1 .. lastOk and headEnd (another status, or a
\* transport error) for the next one; the GET of a checked page finds content,
\* an empty-content marker, or fails.
Sites(n) ==
  [lastOk : 0 .. n, headEnd : {"404", "error"},
   content : [{k \in 1 .. n : k % ContentCheckEvery = 0} -> {"content", "marker", "error"}]]

\* checkPageExists: (true, nil) on status 200, (false, nil) on another status,
\* (false, err) when the request fails.
checkPageExists(site, pageNum) ==
  IF pageNum <= site.lastOk THEN [exists |-> TRUE, err |-> FALSE]
  ELSE [exists |-> FALSE, err |-> site.headEnd = "error"]

\* checkPageContent: (true, nil) when no marker is in the page, (false, nil) when
\* one is, (false, err) when the page cannot be read.
checkPageContent(site, pageNum) ==
  [hasContent |-> site.content[pageNum] = "content", err |-> site.content[pageNum] = "error"]

\* shouldStopDueToEmptyContent: stop on a marker, go on when the check fails.
StopOnContentError(site, pageNum) == ~checkPageContent(site, pageNum).hasContent

shouldStopDueToEmptyContent(site, pageNum) ==
  ~checkPageContent(site, pageNum).err /\ ~checkPageContent(site, pageNum).hasContent

\* No PageRangeGenerator is modelled: the Generator is any Generator.
IdleGen == [pc |-> "idle"]

\* A PageRangeGenerator before Generate is called: currentPage := 1 and no URL.
ReadyGen(site) ==
  [pc |-> "ready", site |-> site, currentPage |-> 1, allPageURLs |-> <<>>, err |-> "nil"]

\* ------------------------------------------------------ the sitemap parsers
\* What a GET of a sitemap URL leads to: "error" when the request fails, the
\* status is not 200, the body cannot be read or the XML does not decode with the
\* parser that the first 512 bytes select; "urlset" for a regular sitemap, with
\* for each <url> whether its <loc> is non-empty; "index" for a sitemap index,
\* with for each <sitemap> whether its <loc> is non-empty and the document there.
NoDocument == [kind |-> "error"]

UrlSets == {[kind |-> "urlset", locs |-> l] :
              l \in UNION {[1 .. n -> BOOLEAN] : n \in 0 .. MaxLocs}}

SitemapRefs(docs) ==
  {[hasLocation |-> FALSE, doc |-> NoDocument]} \cup
  {[hasLocation |-> TRUE, doc |-> d] : d \in docs}

RECURSIVE SitemapDocs(_)
SitemapDocs(depth) ==
  IF depth = 0 THEN {NoDocument} \cup UrlSets
  ELSE {NoDocument} \cup UrlSets \cup
       {[kind |-> "index", refs |-> r] :
          r \in UNION {[1 .. n -> SitemapRefs(SitemapDocs(depth - 1))] :
                         n \in 0 .. MaxSitemapRefs}}

\* The Location of entry k of the document at url.
LocationOf(url, k) == url \o "/" \o ToString(k)

\* parseSitemap, lines 99-119: the entries with a non-empty Location, in order;
\* no error when there is none.
RECURSIVE parseSitemap(_, _, _)
parseSitemap(locs, url, k) ==
  IF k > Len(locs) THEN <<>>
  ELSE (IF locs[k] THEN <<LocationOf(url, k)>> ELSE <<>>) \o parseSitemap(locs, url, k + 1)

\* parseSitemapIndex, lines 80-96: the positions of the references with a
\* non-empty Location, in order.
parseSitemapIndex(refs) == {k \in 1 .. Len(refs) : refs[k].hasLocation}

\* ParseFromURL, lines 24-77; parseChildren is its loop over the references of
\* an index (lines 58-66): a child that fails is skipped.
RECURSIVE ParseFromURL(_, _)
RECURSIVE parseChildrenStopsAtFailure(_, _, _)
parseChildrenStopsAtFailure(refs, url, k) ==
  IF k > Len(refs) THEN <<>>
  ELSE IF ~refs[k].hasLocation THEN parseChildrenStopsAtFailure(refs, url, k + 1)
  ELSE IF ParseFromURL(refs[k].doc, LocationOf(url, k)).err THEN <<>>
  ELSE ParseFromURL(refs[k].doc, LocationOf(url, k)).urls
         \o parseChildrenStopsAtFailure(refs, url, k + 1)

RECURSIVE parseChildren(_, _, _)
parseChildren(refs, url, k) ==
  IF k > Len(refs) THEN <<>>
  ELSE IF ~refs[k].hasLocation THEN parseChildren(refs, url, k + 1)
  ELSE (IF ParseFromURL(refs[k].doc, LocationOf(url, k)).err THEN <<>>
        ELSE ParseFromURL(refs[k].doc, LocationOf(url, k)).urls)
         \o parseChildren(refs, url, k + 1)

ParseFromURL(doc, url) ==
  IF doc.kind = "error" THEN [err |-> TRUE, urls |-> <<>>]
  ELSE IF doc.kind = "index"
    THEN IF parseSitemapIndex(doc.refs) = {} THEN [err |-> TRUE, urls |-> <<>>]
         ELSE IF parseChildren(doc.refs, url, 1) = <<>> THEN [err |-> TRUE, urls |-> <<>>]
         ELSE [err |-> FALSE, urls |-> parseChildren(doc.refs, url, 1)]
  ELSE [err |-> FALSE, urls |-> parseSitemap(doc.locs, url, 1)]

\* No call of ParseFromURL is modelled.
IdleSitemap == [pc |-> "idle"]

\* No call of a component exercised on its own is under way.
IdleCall == [pc |-> "idle"]

CallsIdle ==
  /\ cp = IdleCall
  /\ rep = IdleCall
  /\ tl = IdleCall
  /\ mgr = IdleCall
  /\ pod = IdleCall

\* ------------------------------------------------------ the article store
\* Client.SaveArticle: UpdateOne with the filter {url: article.URL} and upsert: the
\* record of that URL is replaced when there is one, and inserted otherwise.
\* The collection is the bag of the URLs of its records.
SaveArticleInserts(articles, url) == articles (+) One(url)

SaveArticle(articles, url) ==
  IF BagIn(url, articles) THEN articles ELSE articles (+) One(url)

\* No store is modelled: every adapter may return anything at every call.
IdleStore == [pc |-> "idle"]

\* Nothing has run yet: Run has not been called.
NotStarted ==
  /\ ctxDone = FALSE
  /\ runPc = "idle"
  /\ runI = 0
  /\ runErr = "none"
  /\ chanMade = {}
  /\ chanBuf = [c \in ChanIds |-> <<>>]
  /\ chanClosed = [c \in ChanIds |-> FALSE]
  /\ wg = 0
  /\ stepWg = [i \in LaterSteps |-> 0]
  /\ first = [pc |-> "idle", urls |-> <<>>]
  /\ sw = [k \in LaterSteps \X WorkerIds |-> IdleStepWorker]
  /\ closer = [i \in LaterSteps |-> "idle"]
  /\ cw = [w \in WorkerIds |-> IdleContentWorker]
  /\ hist = InitHist

Init ==
  /\ \E p \in Pipelines : steps = p[1] /\ contentConsumer = p[2]
  /\ NotStarted
  /\ filters = <<>>
  /\ bf = IdleFetch
  /\ gen = IdleGen
  /\ store = IdleStore
  /\ sm = IdleSitemap
  /\ CallsIdle

InitChain ==
  /\ \E p \in ChainPipelines : steps = p[1] /\ contentConsumer = p[2]
  /\ NotStarted
  /\ filters = <<>>
  /\ bf = IdleFetch
  /\ gen = IdleGen
  /\ store = IdleStore
  /\ sm = IdleSitemap
  /\ CallsIdle

\* The pipelines whose consumer is fed by a Fetcher: the chains of at most
\* MaxWideSteps steps, a single step having a Fetcher and no Generator.
FetcherFedPipelines ==
  {p \in ChainPipelines :
     /\ Len(p[1]) <= MaxWideSteps
     /\ Len(p[1]) = 1 => p[1][1].Fetcher
     /\ Len(p[1]) > 1 => p[1][1].Generator}

\* A pipeline whose last Fetcher is a BasicUrlFetcher with filters.
InitFiltered ==
  /\ \E p \in FetcherFedPipelines : steps = p[1] /\ contentConsumer = p[2]
  /\ NotStarted
  /\ filters \in FilterLists \ {<<>>}
  /\ bf = IdleFetch
  /\ gen = IdleGen
  /\ store = IdleStore
  /\ sm = IdleSitemap
  /\ CallsIdle

\* ------------------------------------------------------- the caller of Run
\* Run, lines 79-84: reject an empty pipeline, else make the channels.
Run ==
  /\ runPc = "idle"
  /\ chanMade' = ChannelsMadeByRun
  /\ IF NumSteps = 0
       THEN /\ runPc' = "returned"
            /\ runErr' = "pipeline has no steps"
       ELSE /\ runPc' = "startContentConsumer"
            /\ runErr' = runErr
  /\ UNCHANGED <<config, ctxDone, runI, chanBuf, chanClosed, wg, stepWg, first, sw,
                 closer, cw, hist>>

\* startContentConsumer: the worker ids of the loop "for i := 0; i < WorkerCount".
ContentWorkersNone == {}

ContentWorkersStarted == 0 .. contentConsumer.WorkerCount - 1

\* startContentConsumer: wg.Add(1) and go func for each worker.
startContentConsumer ==
  /\ runPc = "startContentConsumer"
  /\ cw' = [w \in WorkerIds |->
              IF w \in ContentWorkersStarted
                THEN [pc |-> "select", url |-> NoURL] ELSE cw[w]]
  /\ wg' = wg + Cardinality(ContentWorkersStarted)
  /\ hist' = [hist EXCEPT !.started = @ + Cardinality(ContentWorkersStarted)]
  /\ runI' = 1
  /\ runPc' = IF 1 < NumSteps THEN "startSteps" ELSE "startFirst"
  /\ UNCHANGED <<config, ctxDone, runErr, chanMade, chanBuf, chanClosed, stepWg,
                 first, sw, closer>>

\* startStepWorkers: the worker ids of the loop "for i := 0; i < step.WorkerCount".
StepWorkersFromOne(i) == 1 .. Step(i).WorkerCount - 1

StepWorkersOneMore(i) == 0 .. Step(i).WorkerCount

StepWorkersStarted(i) == 0 .. Step(i).WorkerCount - 1

\* startSubsequentStepWorkers, one iteration: startStepWorkers for step runI.
startStepWorkers ==
  /\ runPc = "startSteps"
  /\ runI < NumSteps
  /\ IF ~Step(runI).Fetcher
       THEN UNCHANGED <<sw, stepWg, wg, closer, hist>>
       ELSE /\ sw' = [k \in LaterSteps \X WorkerIds |->
                        IF k[1] = runI /\ k[2] \in StepWorkersStarted(runI)
                          THEN [pc |-> "select", url |-> NoURL, out |-> <<>>]
                          ELSE sw[k]]
            /\ stepWg' = [stepWg EXCEPT ![runI] = @ + Cardinality(StepWorkersStarted(runI))]
            /\ wg' = wg + Cardinality(StepWorkersStarted(runI))
            /\ closer' = [closer EXCEPT ![runI] = "wait"]
            /\ hist' = [hist EXCEPT !.started = @ + Cardinality(StepWorkersStarted(runI))]
  /\ runI' = runI + 1
  /\ runPc' = IF runI + 1 < NumSteps THEN "startSteps" ELSE "startFirst"
  /\ UNCHANGED <<config, ctxDone, runErr, chanMade, chanBuf, chanClosed, first, cw>>

\* startFirstStepWorker / startFirstStep: wg.Add(1) and go func.
startFirstStep ==
  /\ runPc = "startFirst"
  /\ first' = [pc |-> "call", urls |-> <<>>]
  /\ wg' = wg + 1
  /\ hist' = [hist EXCEPT !.started = @ + 1]
  /\ runPc' = "wait"
  /\ UNCHANGED <<config, ctxDone, runI, runErr, chanMade, chanBuf, chanClosed,
                 stepWg, sw, closer, cw>>

\* wg.Wait() returns once the counter is zero.
WaitReturnsAtOnce == TRUE

WaitReturns == wg = 0

\* Run, line 90: what Run returns after wg.Wait(): nil, whatever the workers met.
RunReturnsWorkerError == IF hist.fetchFailed \/ hist.saveFailed THEN "worker failed" ELSE "nil"

RunReturns == "nil"

\* Run, lines 88-90: wg.Wait(); return nil.
wgWait ==
  /\ runPc = "wait"
  /\ WaitReturns
  /\ runPc' = "returned"
  /\ runErr' = RunReturns
  /\ UNCHANGED <<config, ctxDone, runI, chanMade, chanBuf, chanClosed, wg, stepWg,
                 first, sw, closer, cw, hist>>

\* The scope is cancelled by its owner, at any moment.
Cancel ==
  /\ ~ctxDone
  /\ ctxDone' = TRUE
  /\ hist' = [hist EXCEPT !.cancelledAtStart = (runPc = "idle")]
  /\ UNCHANGED <<config, runPc, runI, runErr, chanMade, chanBuf, chanClosed, wg,
                 stepWg, first, sw, closer, cw>>

\* ------------------------------------------------------------ adapter results
\* What a producer that returns at most n URLs may return: an error (with no
\* list), or a list of URLs.
ProducerOutcomes(n) ==
  {[err |-> TRUE, urls |-> <<>>]} \cup
  {[err |-> FALSE, urls |-> URLList(k)] : k \in 0 .. n}

\* Generator.Generate of the first step: any list or an error, or what the
\* PageRangeGenerator returned once its call is over.
GenerateOutcomes ==
  IF store.pc # "idle" THEN {store.generate}
  ELSE IF gen.pc = "idle" THEN ProducerOutcomes(MaxGen)
  ELSE IF gen.pc = "returned"
    THEN {[err |-> gen.err # "nil", urls |-> gen.allPageURLs]}
  ELSE {}

\* Fetcher.Fetch of the first step, called with baseURL.
FetchBaseOutcomes == ProducerOutcomes(MaxGen)

\* Fetcher.Fetch of a later step, called with a URL of its input channel; a
\* Fetcher may return a list together with its error.
FetchOutcomes ==
  ProducerOutcomes(MaxFanout) \cup
  {[err |-> TRUE, urls |-> URLList(k)] : k \in 1 .. MaxFanout}

\* The adapters of two runs on the same source are deterministic: the same call
\* returns the same result in both runs.
FetchOutcomesFor(url) == IF store.pc = "idle" THEN FetchOutcomes ELSE {store.fetch[url]}

ProcessOutcomes(url) == IF store.pc = "idle" THEN BOOLEAN ELSE {url \in store.processOk}

SaveOutcomes(url) == IF store.pc = "idle" THEN BOOLEAN ELSE {url \in store.saveOk}

\* The argument baseURL of Run.
BaseURL == "base"

\* generateOrFetchURLs, lines 159-175: which adapter of the first step is called:
\* the Generator when it is set, and the Fetcher only when no Generator is set.
CallsGenerator == Step(0).Generator

CallsFetcherToo == Step(0).Fetcher

CallsFetcher == ~Step(0).Generator /\ Step(0).Fetcher

\* What the Fetcher of step i returns when the fetcher under it returned r: the
\* Fetcher of the last step is a BasicUrlFetcher when filters are configured.
FetcherReturns(i, r) ==
  IF i = NumSteps - 1 /\ filters # <<>>
    THEN [err |-> Fetch(r, filters).err, urls |-> Fetch(r, filters).urls]
    ELSE r

\* The BasicUrlFetcher of step i returns a filter error together with a list
\* that is not nil.
FilterErrorWithResult(i, r) ==
  /\ i = NumSteps - 1 /\ filters # <<>> /\ ~r.err
  /\ Fetch(r, filters).err
  /\ ~Fetch(r, filters).isNil \/ Fetch(r, filters).urls # <<>>

\* generateOrFetchURLs: the Generator if set, else the Fetcher, else an error.
generateOrFetchURLs ==
  IF Step(0).Generator
    THEN {[err |-> r.err, urls |-> IF r.err THEN <<>> ELSE r.urls] : r \in GenerateOutcomes}
  ELSE IF Step(0).Fetcher THEN {FetcherReturns(0, r) : r \in FetchBaseOutcomes}
  ELSE {[err |-> TRUE, urls |-> <<>>]}

\* -------------------------------------------------- the first step's goroutine
\* startFirstStep, lines 145-154: where the goroutine goes after the producer
\* returned r: on error, or with nothing to send, to its deferred close(outputChan).
AfterCallErrorSkipsClose(r) ==
  IF r.err THEN "wgDone" ELSE IF r.urls = <<>> THEN "close" ELSE "send"

AfterCall(r) == IF r.err \/ r.urls = <<>> THEN "close" ELSE "send"

\* startFirstStep, lines 148-151: call the producer; on error return (to the defers).
FirstStepCall ==
  /\ first.pc = "call"
  /\ \E r \in generateOrFetchURLs :
       /\ first' = [pc |-> AfterCall(r), urls |-> r.urls]
       /\ hist' = [hist EXCEPT
                     !.generate = IF CallsGenerator THEN @ + 1 ELSE @,
                     !.fetchFirst = IF CallsFetcher THEN @ + 1 ELSE @,
                     !.fetchFirstArgs = IF CallsFetcher THEN @ \cup {BaseURL} ELSE @,
                     !.firstErr = r.err]
  /\ UNCHANGED <<config, ctxDone, runPc, runI, runErr, chanMade, chanBuf, chanClosed,
                 wg, stepWg, sw, closer, cw>>

\* sendURLsToChannel: the case "outputChan <- url" of the select.
FirstStepSend ==
  /\ first.pc = "send"
  /\ CanSend(firstStepOutput)
  /\ chanBuf' = [chanBuf EXCEPT ![firstStepOutput] = Append(@, Head(first.urls))]
  /\ hist' = HistSendBy(hist, firstStepOutput, Head(first.urls), 0)
  /\ first' = [pc |-> IF Tail(first.urls) = <<>> THEN "close" ELSE "send",
               urls |-> Tail(first.urls)]
  /\ UNCHANGED <<config, ctxDone, runPc, runI, runErr, chanMade, chanClosed, wg,
                 stepWg, sw, closer, cw>>

\* The case "<-ctx.Done()" of the select around a send (sendURLsToChannel,
\* sendExtractedURLs) is ready.
SendWithoutSelect == FALSE

SendSelectCtxDone == ctxDone

\* sendURLsToChannel: the case "<-ctx.Done()" of the select: return.
FirstStepSendCancelled ==
  /\ first.pc = "send"
  /\ SendSelectCtxDone
  /\ first' = [pc |-> "close", urls |-> <<>>]
  /\ UNCHANGED <<config, ctxDone, runPc, runI, runErr, chanMade, chanBuf, chanClosed,
                 wg, stepWg, sw, closer, cw, hist>>

\* startFirstStep: defer close(outputChan).
FirstStepClose ==
  /\ first.pc = "close"
  /\ chanClosed' = [chanClosed EXCEPT ![firstStepOutput] = TRUE]
  /\ hist' = HistClose(hist, firstStepOutput)
  /\ first' = [first EXCEPT !.pc = "wgDone"]
  /\ UNCHANGED <<config, ctxDone, runPc, runI, runErr, chanMade, chanBuf, wg, stepWg,
                 sw, closer, cw>>

\* startFirstStep: defer wg.Done().
FirstStepWgDone ==
  /\ first.pc = "wgDone"
  /\ wg' = wg - 1
  /\ hist' = [hist EXCEPT !.exited = @ + 1]
  /\ first' = [first EXCEPT !.pc = "done"]
  /\ UNCHANGED <<config, ctxDone, runPc, runI, runErr, chanMade, chanBuf, chanClosed,
                 stepWg, sw, closer, cw>>

\* ------------------------------------------------ the workers of a later step
\* startStepWorker: the case "url, ok := <-inputChan" with ok = true, then the
\* call of processURLInStep (Fetch is in flight while pc = "fetch").
StepWorkerReceive(i, w) ==
  /\ sw[<<i, w>>].pc = "select"
  /\ CanRecv(inputChanOfStep(i))
  /\ chanBuf' = [chanBuf EXCEPT ![inputChanOfStep(i)] = AfterRecv(@)]
  /\ hist' = HistRecvBy(hist, inputChanOfStep(i), Head(chanBuf[inputChanOfStep(i)]), i)
  /\ sw' = [sw EXCEPT ![<<i, w>>] =
              [pc |-> "fetch", url |-> Head(chanBuf[inputChanOfStep(i)]), out |-> <<>>]]
  /\ UNCHANGED <<config, ctxDone, runPc, runI, runErr, chanMade, chanClosed, wg,
                 stepWg, first, closer, cw>>

\* startStepWorker returns: the deferred calls run last registered first, so
\* wg.Done() runs here and stepWg.Done() is still to come.
StepWorkerReturn(i, w) ==
  /\ wg' = wg - 1
  /\ sw' = [sw EXCEPT ![<<i, w>>] = [pc |-> "stepWgDone", url |-> NoURL, out |-> <<>>]]
  /\ UNCHANGED <<stepWg, hist>>

\* startStepWorker: the deferred stepWg.Done() runs and the goroutine ends.
StepWorkerStepWgDone(i, w) ==
  /\ sw[<<i, w>>].pc = "stepWgDone"
  /\ stepWg' = [stepWg EXCEPT ![i] = @ - 1]
  /\ hist' = [hist EXCEPT !.exited = @ + 1]
  /\ sw' = [sw EXCEPT ![<<i, w>>] = [pc |-> "done", url |-> NoURL, out |-> <<>>]]
  /\ UNCHANGED <<config, ctxDone, runPc, runI, runErr, chanMade, chanBuf, chanClosed,
                 wg, first, closer, cw>>

\* startStepWorker: the receive with ok = false: return.
StepWorkerInputClosed(i, w) ==
  /\ sw[<<i, w>>].pc = "select"
  /\ RecvNotOk(inputChanOfStep(i))
  /\ StepWorkerReturn(i, w)
  /\ UNCHANGED <<config, ctxDone, runPc, runI, runErr, chanMade, chanBuf, chanClosed,
                 first, closer, cw>>

\* startStepWorker: the case "<-ctx.Done()": return.
StepWorkerCancelled(i, w) ==
  /\ sw[<<i, w>>].pc = "select"
  /\ RecvSelectCtxDone
  /\ StepWorkerReturn(i, w)
  /\ UNCHANGED <<config, ctxDone, runPc, runI, runErr, chanMade, chanBuf, chanClosed,
                 first, closer, cw>>

\* processURLInStep, lines 239-246: the URLs handed to sendExtractedURLs; none
\* when Fetch returned an error.
ExtractedDespiteError(r) == r.urls

Extracted(r) == IF r.err THEN <<>> ELSE r.urls

\* processURLInStep: Fetch returns; on error log and return to the loop.
StepWorkerFetch(i, w) ==
  /\ sw[<<i, w>>].pc = "fetch"
  /\ \E under \in FetchOutcomesFor(sw[<<i, w>>].url) :
       LET r == FetcherReturns(i, under) IN
       /\ sw' = [sw EXCEPT ![<<i, w>>] =
                   IF Extracted(r) = <<>>
                     THEN [pc |-> "select", url |-> NoURL, out |-> <<>>]
                     ELSE [pc |-> "send", url |-> NoURL, out |-> Extracted(r)]]
       /\ hist' = [hist EXCEPT
                     !.fetch = @ + 1,
                     !.fetched[inputChanOfStep(i)] = @ (+) One(sw[<<i, w>>].url),
                     !.fetchFailed = @ \/ r.err,
                     !.filterFailed = @ \/ (r.err /\ ~under.err),
                     !.filterErrorWithResult = @ \/ FilterErrorWithResult(i, under),
                     !.emitOnFetchError = @ \/ (r.err /\ Extracted(r) # <<>>)]
  /\ UNCHANGED <<config, ctxDone, runPc, runI, runErr, chanMade, chanBuf, chanClosed,
                 wg, stepWg, first, closer, cw>>

\* sendExtractedURLs: the case "outputChan <- extractedURL" of the select.
StepWorkerSend(i, w) ==
  /\ sw[<<i, w>>].pc = "send"
  /\ CanSend(getOutputChannelForStep(i))
  /\ chanBuf' = [chanBuf EXCEPT ![getOutputChannelForStep(i)] =
                   Append(@, Head(sw[<<i, w>>].out))]
  /\ hist' = HistSendBy(hist, getOutputChannelForStep(i), Head(sw[<<i, w>>].out), i)
  /\ sw' = [sw EXCEPT ![<<i, w>>] =
              [pc |-> IF Tail(@.out) = <<>> THEN "select" ELSE "send",
               url |-> NoURL, out |-> Tail(@.out)]]
  /\ UNCHANGED <<config, ctxDone, runPc, runI, runErr, chanMade, chanClosed, wg,
                 stepWg, first, closer, cw>>

\* sendExtractedURLs: the case "<-ctx.Done()": return to the loop of the worker.
StepWorkerSendCancelled(i, w) ==
  /\ sw[<<i, w>>].pc = "send"
  /\ SendSelectCtxDone
  /\ sw' = [sw EXCEPT ![<<i, w>>] = [pc |-> "select", url |-> NoURL, out |-> <<>>]]
  /\ UNCHANGED <<config, ctxDone, runPc, runI, runErr, chanMade, chanBuf, chanClosed,
                 wg, stepWg, first, closer, cw, hist>>

\* closeChannelWhenDone: stepWg.Wait() returns.
StepWgWaitSkipped(i) == TRUE

StepWgWaitNever(i) == FALSE

StepWgWaitForOne(i) == stepWg[i] < Step(i).WorkerCount

StepWgWaitReturns(i) == stepWg[i] = 0

\* closeChannelWhenDone: stepWg.Wait(); close(outputChan).
closeChannelWhenDone(i) ==
  /\ closer[i] = "wait"
  /\ StepWgWaitReturns(i)
  /\ chanClosed' = [chanClosed EXCEPT ![getOutputChannelForStep(i)] = TRUE]
  /\ hist' = HistClose(hist, getOutputChannelForStep(i))
  /\ closer' = [closer EXCEPT ![i] = "done"]
  /\ UNCHANGED <<config, ctxDone, runPc, runI, runErr, chanMade, chanBuf, wg, stepWg,
                 first, sw, cw>>

\* ------------------------------------------------------- the content workers
\* processContentURL, lines 304-309: both adapters must be set.
ProcessorConfigured == contentConsumer.ContentProcessor

ConsumerConfigured ==
  contentConsumer.ContentProcessor /\ contentConsumer.ContentSaver

\* startContentConsumer: the receive with ok = true, then the call of
\* processContentURL: a configuration error returns at once, else ProcessContent
\* is called (in flight while pc = "process").
ContentWorkerReceive(w) ==
  /\ cw[w].pc = "select"
  /\ CanRecv(ContentChan)
  /\ chanBuf' = [chanBuf EXCEPT ![ContentChan] = AfterRecv(@)]
  /\ LET u == Head(chanBuf[ContentChan]) IN
       IF ConsumerConfigured
         THEN /\ cw' = [cw EXCEPT ![w] = [pc |-> "process", url |-> u]]
              /\ hist' = [HistRecvBy(hist, ContentChan, u, NumSteps) EXCEPT
                              !.processed = @ (+) One(u)]
         ELSE /\ cw' = cw
              /\ hist' = HistRecvBy(hist, ContentChan, u, NumSteps)
  /\ UNCHANGED <<config, ctxDone, runPc, runI, runErr, chanMade, chanClosed, wg,
                 stepWg, first, sw, closer>>

\* A content worker returns: its deferred wg.Done() runs and the goroutine ends.
ContentWorkerReturn(w) ==
  /\ wg' = wg - 1
  /\ hist' = [hist EXCEPT !.exited = @ + 1]
  /\ cw' = [cw EXCEPT ![w] = [pc |-> "done", url |-> NoURL]]

\* startContentConsumer: the receive with ok = false: return.
ContentWorkerInputClosed(w) ==
  /\ cw[w].pc = "select"
  /\ RecvNotOk(ContentChan)
  /\ ContentWorkerReturn(w)
  /\ UNCHANGED <<config, ctxDone, runPc, runI, runErr, chanMade, chanBuf, chanClosed,
                 stepWg, first, sw, closer>>

\* startContentConsumer: the case "<-ctx.Done()": return.
ContentWorkerCancelled(w) ==
  /\ cw[w].pc = "select"
  /\ RecvSelectCtxDone
  /\ ContentWorkerReturn(w)
  /\ UNCHANGED <<config, ctxDone, runPc, runI, runErr, chanMade, chanBuf, chanClosed,
                 stepWg, first, sw, closer>>

\* processContentURL, lines 314-317: SaveArticle is reached only when
\* ProcessContent returned no error.
SaveCalledAlways(ok) == TRUE

SaveCalled(ok) == ok

\* processContentURL, lines 313-317: ProcessContent returns an article or an error.
ContentWorkerProcess(w) ==
  /\ cw[w].pc = "process"
  /\ \E ok \in ProcessOutcomes(cw[w].url) :
       /\ cw' = [cw EXCEPT ![w] = IF SaveCalled(ok) THEN [pc |-> "save", url |-> @.url]
                                        ELSE [pc |-> "select", url |-> NoURL]]
       /\ hist' = [hist EXCEPT !.processedOk = IF ok THEN @ + 1 ELSE @]
  /\ UNCHANGED <<config, ctxDone, runPc, runI, runErr, chanMade, chanBuf, chanClosed,
                 wg, stepWg, first, sw, closer>>

\* processContentURL, lines 323-329: SaveArticle is called and returns; its error
\* is logged only.
ContentWorkerSave(w) ==
  /\ cw[w].pc = "save"
  /\ cw' = [cw EXCEPT ![w] = [pc |-> "select", url |-> NoURL]]
  /\ \E ok \in SaveOutcomes(cw[w].url) :
       /\ hist' = [hist EXCEPT !.saves = @ + 1, !.saveFailed = @ \/ ~ok]
       /\ store' = IF store.pc = "idle" \/ ~ok THEN store
                   ELSE [store EXCEPT !.articles = SaveArticle(@, cw[w].url)]
  /\ UNCHANGED <<steps, contentConsumer, standalone, filters, bf, gen, sm, ctxDone, runPc, runI, runErr,
                 chanMade, chanBuf, chanClosed, wg, stepWg, first, sw, closer>>

\* ------------------------------------------------------------ specification
\* One step of the program (of Run or of a goroutine it started).
ProgramStep ==
  \/ Run
  \/ startContentConsumer
  \/ startStepWorkers
  \/ startFirstStep
  \/ wgWait
  \/ FirstStepCall
  \/ FirstStepSend
  \/ FirstStepSendCancelled
  \/ FirstStepClose
  \/ FirstStepWgDone
  \/ \E i \in LaterSteps, w \in WorkerIds :
       \/ StepWorkerReceive(i, w)
       \/ StepWorkerInputClosed(i, w)
       \/ StepWorkerCancelled(i, w)
       \/ StepWorkerStepWgDone(i, w)
       \/ StepWorkerFetch(i, w)
       \/ StepWorkerSend(i, w)
       \/ StepWorkerSendCancelled(i, w)
  \/ \E i \in LaterSteps : closeChannelWhenDone(i)
  \/ \E w \in WorkerIds :
       \/ ContentWorkerReceive(w)
       \/ ContentWorkerInputClosed(w)
       \/ ContentWorkerCancelled(w)
       \/ ContentWorkerProcess(w)
       \/ ContentWorkerSave(w)

Next == ProgramStep \/ Cancel

Spec == Init /\ [][Next]_vars

\* The Go scheduler runs some runnable goroutine: the program does not stop
\* while one of its steps is possible.  Nothing obliges the scope's owner to cancel.
FairSpec == Init /\ [][Next]_vars /\ WF_vars(ProgramStep)

\* The same program run on the chains.
SpecChain == InitChain /\ [][Next]_vars

\* The same program with a filtering fetcher in front of the consumer.
SpecFiltered == InitFiltered /\ [][Next]_vars

\* --------------------------------------- BasicUrlFetcher.Fetch on its own
\* What the fetcher under a BasicUrlFetcher returns: an error, or a list.
UnderOutcomes ==
  {[err |-> TRUE, urls |-> <<>>]} \cup {[err |-> FALSE, urls |-> l] : l \in RawLists}

\* No result yet.
NoResult == [urls |-> <<>>, isNil |-> TRUE, err |-> FALSE, calls |-> <<>>]

\* No pipeline is run: the variables of Run keep their first values.
NoPipeline ==
  /\ steps = <<>>
  /\ contentConsumer = [WorkerCount |-> 1, ContentProcessor |-> TRUE, ContentSaver |-> TRUE]
  /\ NotStarted

\* A BasicUrlFetcher with any filters, over a fetcher with any result.
InitFetcher ==
  /\ NoPipeline
  /\ filters \in FilterLists
  /\ \E under \in UnderOutcomes :
       bf = [pc |-> "ready", under |-> under, result |-> NoResult, filtered |-> NoResult]
  /\ gen = IdleGen
  /\ store = IdleStore
  /\ sm = IdleSitemap
  /\ CallsIdle

\* BasicUrlFetcher.Fetch(ctx, baseURL) is called and returns.
BasicUrlFetcherFetch ==
  /\ bf.pc = "ready"
  /\ bf' = [bf EXCEPT !.pc = "fetched", !.result = Fetch(bf.under, filters)]
  /\ UNCHANGED <<steps, contentConsumer, standalone, filters, gen, store, sm, runVars>>

\* filter.FilterURLs(ctx, urls, filters...) is called on the same list and returns.
FilterURLsCall ==
  /\ bf.pc = "fetched"
  /\ bf' = [bf EXCEPT !.pc = "done", !.filtered = FilterURLs(bf.under.urls, filters)]
  /\ UNCHANGED <<steps, contentConsumer, standalone, filters, gen, store, sm, runVars>>

NextFetcher == BasicUrlFetcherFetch \/ FilterURLsCall

SpecFetcher == InitFetcher /\ [][NextFetcher]_vars

\* ----------------------------------------------- PageRangeGenerator.Generate
\* Generate is called: by the first step's goroutine when the generator is the
\* Generator of a pipeline, else by a caller of its own.
GenerateCall ==
  /\ gen.pc = "ready"
  /\ steps = <<>> \/ first.pc = "call"
  /\ gen' = [gen EXCEPT !.pc = "loop"]
  /\ UNCHANGED <<steps, contentConsumer, standalone, filters, bf, store, sm, runVars>>

\* Generate, lines 309-313: the case "<-ctx.Done()" of the select at the top of
\* the loop is ready.
GenerateNeverSeesDone == FALSE

GenerateSelectCtxDone == ctxDone

\* Generate, lines 308-314: the top of the loop: return what was accumulated with
\* ctx.Err() when the scope is done, else build the URL of the page and go on.
GenerateLoop ==
  /\ gen.pc = "loop"
  /\ gen' = IF GenerateSelectCtxDone
              THEN [gen EXCEPT !.pc = "returned", !.err = "context canceled"]
              ELSE [gen EXCEPT !.pc = "head"]
  /\ UNCHANGED <<steps, contentConsumer, standalone, filters, bf, store, sm, runVars>>

\* Generate, lines 322-323: the page is kept and the next one is looked at.
GenerateAppend ==
  [gen EXCEPT !.pc = "loop",
              !.allPageURLs = Append(@, buildPageURL(gen.currentPage)),
              !.currentPage = @ + 1]

\* A Generate that hands the error that ended the loop to its caller.
GenerateBreakReturnsError ==
  [gen EXCEPT !.pc = "returned", !.err = "pagination ended"]

\* Generate, line 326: after the break: return allPageURLs, nil.
GenerateBreak == [gen EXCEPT !.pc = "returned", !.err = "nil"]

\* shouldStopPagination, lines 336-350, and lines 316-319 of Generate: the HEAD
\* request; a failed request or a status other than 200 ends the loop; every
\* tenth page that exists has its content checked.
GenerateHead ==
  /\ gen.pc = "head"
  /\ gen' = IF checkPageExists(gen.site, gen.currentPage).err
                \/ ~checkPageExists(gen.site, gen.currentPage).exists
              THEN GenerateBreak
              ELSE IF gen.currentPage % ContentCheckEvery = 0
                THEN [gen EXCEPT !.pc = "content"]
              ELSE GenerateAppend
  /\ UNCHANGED <<steps, contentConsumer, standalone, filters, bf, store, sm, runVars>>

\* shouldStopDueToEmptyContent, and lines 316-323 of Generate: the GET of a tenth
\* page; an empty-content marker ends the loop.
GenerateContent ==
  /\ gen.pc = "content"
  /\ gen' = IF shouldStopDueToEmptyContent(gen.site, gen.currentPage)
              THEN GenerateBreak
              ELSE GenerateAppend
  /\ UNCHANGED <<steps, contentConsumer, standalone, filters, bf, store, sm, runVars>>

GenerateStep == GenerateCall \/ GenerateLoop \/ GenerateHead \/ GenerateContent

\* A PageRangeGenerator over a site of at most MaxPage pages, called on its own.
InitGenerate ==
  /\ NoPipeline
  /\ filters = <<>>
  /\ bf = IdleFetch
  /\ \E site \in Sites(MaxPage) : gen = ReadyGen(site)
  /\ store = IdleStore
  /\ sm = IdleSitemap
  /\ CallsIdle

NextGenerate == GenerateStep \/ Cancel

SpecGenerate == InitGenerate /\ [][NextGenerate]_vars

\* --------------------------- a pipeline whose Generator is a PageRangeGenerator
\* One step with the PageRangeGenerator as its Generator, and a consumer with
\* one worker, over a site of at most MaxPipelinePage pages.
InitPaged ==
  /\ steps = << [WorkerCount |-> 1, Generator |-> TRUE, Fetcher |-> FALSE] >>
  /\ contentConsumer = [WorkerCount |-> 1, ContentProcessor |-> TRUE, ContentSaver |-> TRUE]
  /\ NotStarted
  /\ filters = <<>>
  /\ bf = IdleFetch
  /\ \E site \in Sites(MaxPipelinePage) : gen = ReadyGen(site)
  /\ store = IdleStore
  /\ sm = IdleSitemap
  /\ CallsIdle

\* One step of Run, of the goroutines of this pipeline, or of Generate.
PagedStep ==
  \/ Run
  \/ startContentConsumer
  \/ startFirstStep
  \/ wgWait
  \/ GenerateStep
  \/ FirstStepCall
  \/ FirstStepSend
  \/ FirstStepSendCancelled
  \/ FirstStepClose
  \/ FirstStepWgDone
  \/ \E w \in WorkerIds :
       \/ ContentWorkerReceive(w)
       \/ ContentWorkerInputClosed(w)
       \/ ContentWorkerCancelled(w)
       \/ ContentWorkerProcess(w)
       \/ ContentWorkerSave(w)

NextPaged == PagedStep \/ Cancel

\* The Go scheduler runs some runnable goroutine; nothing obliges the scope's
\* owner to cancel.
SpecPaged == InitPaged /\ [][NextPaged]_vars /\ WF_vars(PagedStep)

\* ------------------------------------------ two runs against the same store
\* The URLs that the adapters of the two runs meet.
TwiceURLs == {URLNames[k] : k \in 1 .. (IF MaxGen > MaxFanout THEN MaxGen ELSE MaxFanout)}

\* A Generator, a step with a Fetcher and a consumer with one worker; what every
\* adapter returns for each of its inputs is fixed for both runs; the collection
\* is empty before the first run.
InitTwice ==
  /\ steps = << [WorkerCount |-> 1, Generator |-> TRUE, Fetcher |-> FALSE],
                [WorkerCount |-> 1, Generator |-> FALSE, Fetcher |-> TRUE] >>
  /\ contentConsumer = [WorkerCount |-> 1, ContentProcessor |-> TRUE, ContentSaver |-> TRUE]
  /\ NotStarted
  /\ filters = <<>>
  /\ bf = IdleFetch
  /\ gen = IdleGen
  /\ \E g \in ProducerOutcomes(MaxGen), f \in [TwiceURLs -> FetchOutcomes],
        p \in SUBSET TwiceURLs, sv \in SUBSET TwiceURLs :
       store = [pc |-> "first", generate |-> g, fetch |-> f, processOk |-> p,
                saveOk |-> sv, articles |-> EmptyBag, afterFirst |-> EmptyBag,
                firstCancelled |-> FALSE]
  /\ sm = IdleSitemap
  /\ CallsIdle

\* Run is called again, with a scope of its own, after the first call returned:
\* its channels, its WaitGroup and its goroutines are new, the store is the same.
RunAgain ==
  /\ runPc = "returned"
  /\ store.pc = "first"
  /\ store' = [store EXCEPT !.pc = "second", !.afterFirst = store.articles,
                            !.firstCancelled = ctxDone]
  /\ ctxDone' = FALSE
  /\ runPc' = "idle"
  /\ runI' = 0
  /\ runErr' = "none"
  /\ chanMade' = {}
  /\ chanBuf' = [c \in ChanIds |-> <<>>]
  /\ chanClosed' = [c \in ChanIds |-> FALSE]
  /\ wg' = 0
  /\ stepWg' = [i \in LaterSteps |-> 0]
  /\ first' = [pc |-> "idle", urls |-> <<>>]
  /\ sw' = [k \in LaterSteps \X WorkerIds |-> IdleStepWorker]
  /\ closer' = [i \in LaterSteps |-> "idle"]
  /\ cw' = [w \in WorkerIds |-> IdleContentWorker]
  /\ hist' = InitHist
  /\ UNCHANGED <<steps, contentConsumer, standalone, filters, bf, gen, sm>>

NextTwice == Next \/ RunAgain

SpecTwice == InitTwice /\ [][NextTwice]_vars

\* ------------------------------------- runs that fill the channels of a pipeline
\* The list of the first n page URLs, as a Generator over a paginated site returns it.
PageList(n) == [k \in 1 .. n |-> buildPageURL(k)]

\* The URLs that the adapters of these runs meet: page URLs and two article URLs.
BufferURLs == {buildPageURL(k) : k \in 1 .. FirstChannelBuffer + 1} \cup {"u1", "u2"}

\* A Fetcher that finds no URL anywhere.
FetchNothing == [u \in BufferURLs |-> [err |-> FALSE, urls |-> <<>>]]

\* A Fetcher that finds the links u1 and u2 on every page, and no link at u1 and
\* at u2.
FetchTwoPerPage ==
  [u \in BufferURLs |->
     [err |-> FALSE, urls |-> IF u \in {"u1", "u2"} THEN <<>> ELSE <<"u1", "u2">>]]

GeneratorStep == [WorkerCount |-> 1, Generator |-> TRUE, Fetcher |-> FALSE]

FetcherStep(n) == [WorkerCount |-> n, Generator |-> FALSE, Fetcher |-> TRUE]

Consumer(n) == [WorkerCount |-> n, ContentProcessor |-> TRUE, ContentSaver |-> TRUE]

\* Pipelines with more URLs than their channels hold: a single step in front of a
\* consumer of one or of MaxWorkers workers; two steps with one page more than
\* the first channel holds; three steps whose two later steps differ in their
\* WorkerCount, in both orders.
BufferRuns ==
  {[steps |-> <<GeneratorStep>>, consumer |-> Consumer(n),
    pages |-> 2 * n + 1, fetch |-> FetchNothing] : n \in {1, MaxWorkers}}
  \cup
  {[steps |-> <<GeneratorStep, FetcherStep(1)>>, consumer |-> Consumer(1),
    pages |-> FirstChannelBuffer + 1, fetch |-> FetchNothing]}
  \cup
  {[steps |-> <<GeneratorStep, FetcherStep(n), FetcherStep(MaxWorkers + 1 - n)>>,
    consumer |-> Consumer(1), pages |-> MaxWorkers + 1, fetch |-> FetchTwoPerPage] :
     n \in {1, MaxWorkers}}

\* One of these pipelines, with adapters that never fail, before Run is called.
InitBuffers ==
  /\ \E r \in BufferRuns :
       /\ steps = r.steps
       /\ contentConsumer = r.consumer
       /\ store = [pc |-> "first",
                   generate |-> [err |-> FALSE, urls |-> PageList(r.pages)],
                   fetch |-> r.fetch, processOk |-> BufferURLs, saveOk |-> BufferURLs,
                   articles |-> EmptyBag, afterFirst |-> EmptyBag,
                   firstCancelled |-> FALSE]
  /\ NotStarted
  /\ filters = <<>>
  /\ bf = IdleFetch
  /\ gen = IdleGen
  /\ sm = IdleSitemap
  /\ CallsIdle

SpecBuffers == InitBuffers /\ [][Next]_vars

\* -------------------------------------------- ParseFromURL of a sitemap tree
\* The URL that ParseFromURL is called with.
SitemapURL == "https://site.com/sitemap.xml"

\* Any tree of sitemap documents of at most MaxSitemapDepth levels of indexes.
InitSitemap ==
  /\ NoPipeline
  /\ filters = <<>>
  /\ bf = IdleFetch
  /\ gen = IdleGen
  /\ store = IdleStore
  /\ CallsIdle
  /\ \E doc \in SitemapDocs(MaxSitemapDepth) :
       sm = [pc |-> "ready", doc |-> doc, urls |-> [err |-> FALSE, urls |-> <<>>],
             entries |-> [err |-> FALSE, urls |-> <<>>]]

\* SitemapParser.ParseFromURL(url) is called and returns.
SitemapParserParseFromURL ==
  /\ sm.pc = "ready"
  /\ sm' = [sm EXCEPT !.pc = "parsed", !.urls = ParseFromURL(sm.doc, SitemapURL)]
  /\ UNCHANGED <<steps, contentConsumer, standalone, filters, bf, gen, store, runVars>>

\* sitemap.Parser.ParseFromURL(sitemapURL), the same algorithm over Entry values,
\* is called on the same documents and returns.
ParserParseFromURL ==
  /\ sm.pc = "parsed"
  /\ sm' = [sm EXCEPT !.pc = "done", !.entries = ParseFromURL(sm.doc, SitemapURL)]
  /\ UNCHANGED <<steps, contentConsumer, standalone, filters, bf, gen, store, runVars>>

NextSitemap == SitemapParserParseFromURL \/ ParserParseFromURL

SpecSitemap == InitSitemap /\ [][NextSitemap]_vars

\* ------------------------------------------ HTTPContentProcessor.ProcessContent
\* A response body is a sequence of pieces of text: white space, the marker of
\* an error page, or markup.
Marker == "Not Acceptable"

WhiteSpace == {" ", "\n"}

BodyPieces == WhiteSpace \cup {Marker, "<html>"}

Bodies == UNION {[1..n -> BodyPieces] : n \in 0..MaxBody}

StatusOK == 200

StatusNotFound == 404

StatusNotAcceptable == 406

HTTPStatuses == {StatusOK, StatusNotFound, StatusNotAcceptable}

\* What p.client.Get(url) answers, whether the body can be read to its end, and
\* what the extractor makes of the document.
Responses ==
  [transport : {"ok", "error"}, status : HTTPStatuses, readFails : BOOLEAN,
   body : Bodies, textFails : BOOLEAN, titleFails : BOOLEAN]

\* strings.Contains(bodyStr, "Not Acceptable")
Contains(body, piece) == \E i \in 1..Len(body) : body[i] = piece

\* strings.TrimSpace(bodyStr): the body without its leading and trailing white space.
TrimSpace(body) ==
  LET inked == {i \in 1..Len(body) : body[i] \notin WhiteSpace}
  IN  IF inked = {} THEN <<>>
      ELSE LET lo == CHOOSE i \in inked : \A j \in inked : i <= j
               hi == CHOOSE i \in inked : \A j \in inked : j <= i
           IN  SubSeq(body, lo, hi)

NoHTML == <<>>

\* fetchHTML that takes an error page for a document.
fetchHTMLIgnoresMarker(resp) ==
  IF resp.transport = "error"
  THEN [html |-> NoHTML, err |-> "failed to fetch URL: connection refused"]
  ELSE IF resp.status # StatusOK
  THEN [html |-> NoHTML, err |-> "unexpected status code: " \o ToString(resp.status)]
  ELSE IF resp.readFails
  THEN [html |-> NoHTML, err |-> "failed to read response body: unexpected EOF"]
  ELSE IF TrimSpace(resp.body) = <<>>
  THEN [html |-> NoHTML,
        err |-> "server returned error or empty response (status: "
                  \o ToString(resp.status) \o ")"]
  ELSE [html |-> resp.body, err |-> "nil"]

\* fetchHTML(url): the body of a 200 response that is neither an error page nor
\* empty.
fetchHTML(resp) ==
  IF resp.transport = "error"
  THEN [html |-> NoHTML, err |-> "failed to fetch URL: connection refused"]
  ELSE IF resp.status # StatusOK
  THEN [html |-> NoHTML, err |-> "unexpected status code: " \o ToString(resp.status)]
  ELSE IF resp.readFails
  THEN [html |-> NoHTML, err |-> "failed to read response body: unexpected EOF"]
  ELSE IF Contains(resp.body, Marker) \/ TrimSpace(resp.body) = <<>>
  THEN [html |-> NoHTML,
        err |-> "server returned error or empty response (status: "
                  \o ToString(resp.status) \o ")"]
  ELSE [html |-> resp.body, err |-> "nil"]

NoArticle == [url |-> "", title |-> "", text |-> "", crawledAt |-> "zero"]

\* ProcessContent(ctx, url): the article and the error it returns.
ProcessContent(url, resp) ==
  LET fetched == fetchHTML(resp)
  IN  IF fetched.err # "nil"
      THEN [article |-> NoArticle, isNil |-> TRUE,
            err |-> "failed to fetch HTML: " \o fetched.err]
      ELSE IF resp.textFails
      THEN [article |-> NoArticle, isNil |-> TRUE,
            err |-> "failed to extract text: failed to extract text"]
      ELSE IF resp.titleFails
      THEN [article |-> NoArticle, isNil |-> TRUE,
            err |-> "failed to extract title: title not found in HTML"]
      ELSE [article |-> [url |-> url, title |-> "title", text |-> "text",
                         crawledAt |-> "now"],
            isNil |-> FALSE, err |-> "nil"]

\* Nothing but the one component under study is in use.
AdaptersIdle ==
  /\ NoPipeline
  /\ filters = <<>>
  /\ bf = IdleFetch
  /\ gen = IdleGen
  /\ store = IdleStore
  /\ sm = IdleSitemap

InitContent ==
  /\ AdaptersIdle
  /\ rep = IdleCall
  /\ tl = IdleCall
  /\ mgr = IdleCall
  /\ pod = IdleCall
  /\ \E i \in 1..2, resp \in Responses :
       cp = [pc |-> "ready", url |-> URLNames[i], resp |-> resp,
             result |-> [article |-> NoArticle, isNil |-> TRUE, err |-> "nil"]]

\* ProcessContent(ctx, url) is called and returns.
ProcessContentCall ==
  /\ cp.pc = "ready"
  /\ cp' = [cp EXCEPT !.pc = "returned", !.result = ProcessContent(cp.url, cp.resp)]
  /\ UNCHANGED <<exceptCp, runVars>>

NextContent == ProcessContentCall

SpecContent == InitContent /\ [][NextContent]_vars

\* ---------------------------------- Replicator.ReplicateArticlesMongoToPostgres
processBatchSize == 100

numWorkers == 5

\* The sizes of the Mongo collection: around the batch borders.
ArticleCounts == {n \in 0..MaxArticles : n % processBatchSize \in {0, 1}}

\* How the collection is made up: which articles have no URL, whether a URL
\* comes back one batch later, and which URLs the Postgres table already holds.
Shapes == [emptyEvery : {7}, repeats : BOOLEAN, existingEvery : {0, 3}]

\* The i-th article of the collection (i from 1).
ArticleAt(shape, i) ==
  [url  |-> IF shape.emptyEvery # 0 /\ i % shape.emptyEvery = 0 THEN ""
            ELSE IF shape.repeats
                 THEN "u" \o ToString(((i - 1) % processBatchSize) + 1)
                 ELSE "u" \o ToString(i),
   text |-> "t" \o ToString(i)]

\* r.mongo.GetAllArticles(ctx)
MongoArticles(shape, n) == [i \in 1..n |-> ArticleAt(shape, i)]

\* The rows of the article table before the run, url -> text: some of the
\* collection's URLs with an older text, and a row of another origin.
PostgresRows(shape, n) ==
  LET held == {i \in 1..n : /\ shape.existingEvery # 0
                            /\ i % shape.existingEvery = 0
                            /\ ArticleAt(shape, i).url # ""}
      urls == {ArticleAt(shape, i).url : i \in held} \cup {"elsewhere"}
  IN  [u \in urls |-> "old"]

\* calculateBatchEnd(start, batchSize, totalLen)
calculateBatchEnd(start, batchSize, totalLen) ==
  LET end == start + batchSize
  IN  IF end > totalLen THEN totalLen ELSE end

\* The batch jobs that the loop of processBatches makes, from start on.
RECURSIVE batchJobs(_, _)
batchJobs(start, totalLen) ==
  IF start < totalLen
  THEN <<[start |-> start,
          end |-> calculateBatchEnd(start, processBatchSize, totalLen)]>>
         \o batchJobs(start + processBatchSize, totalLen)
  ELSE <<>>

\* articles[start:end]
Slice(articles, start, end) == SubSeq(articles, start + 1, end)

\* numBatches := (len(articles) + processBatchSize - 1) / processBatchSize
numBatches(totalLen) == (totalLen + processBatchSize - 1) \div processBatchSize

\* extractURLsFromBatch(batch): the non-empty URLs of the batch.
extractURLsFromBatch(batch) ==
  {batch[i].url : i \in {j \in 1..Len(batch) : batch[j].url # ""}}

\* checkURLsExistInPostgres(ctx, batch): the URLs of the batch that have a row.
checkURLsExistInPostgres(table, batch) ==
  extractURLsFromBatch(batch) \cap DOMAIN table

\* filterNewArticlesByURL(all, existing)
filterNewArticlesByURL(all, existing) ==
  SelectSeq(all, LAMBDA a : a.url # "" /\ a.url \notin existing)

\* executeBatchInsert(ctx, tx, batch): the table after the statements of the
\* batch, in order. INSERT ... ON CONFLICT (url) DO NOTHING adds a row for a URL
\* that has none, so the first article of the batch with that URL gives the row
\* its text and the later ones do nothing; an article without URL is passed over.
executeBatchInsert(table, batch) ==
  LET added == {batch[i].url : i \in {j \in 1..Len(batch) : batch[j].url # ""}}
                 \ DOMAIN table
      firstWith(u) == CHOOSE i \in 1..Len(batch) :
                        /\ batch[i].url = u
                        /\ \A j \in 1..(i - 1) : batch[j].url # u
  IN  [u \in DOMAIN table \cup added |->
         IF u \in DOMAIN table THEN table[u] ELSE batch[firstWith(u)].text]

\* insertArticlesTx that returns without committing.
insertArticlesTxNeverCommits(table, batch, fails) == table

\* insertArticlesTx(ctx, batch): the table after the transaction; a failure of
\* begin, of a statement or of the commit rolls everything back.
insertArticlesTx(table, batch, fails) ==
  IF fails THEN table ELSE executeBatchInsert(table, batch)

RepWorkers == 1..numWorkers

\* What a goroutine of processBatches holds between two steps; there is none
\* ("idle") until processBatches starts it.
IdleRepWorker ==
  [pc |-> "idle", job |-> [start |-> 0, end |-> 0], toInsert |-> <<>>,
   result |-> [processed |-> 0, inserted |-> 0, err |-> "nil"]]

BatchRange(job) == "[" \o ToString(job.start) \o ":" \o ToString(job.end) \o "]"

InitReplicate ==
  /\ AdaptersIdle
  /\ cp = IdleCall
  /\ tl = IdleCall
  /\ mgr = IdleCall
  /\ pod = IdleCall
  /\ \E n \in ArticleCounts, shape \in Shapes, parallel \in BOOLEAN :
       rep = [pc |-> "ready", parallel |-> parallel,
              articles |-> MongoArticles(shape, n),
              table |-> PostgresRows(shape, n),
              before |-> PostgresRows(shape, n),
              jobs |-> <<>>, results |-> <<>>,
              resultsCap |-> 0, resultsClosed |-> FALSE, wg |-> 0,
              workers |-> [w \in RepWorkers |-> IdleRepWorker],
              closer |-> "none", start |-> 0,
              totalProcessed |-> 0, totalInserted |-> 0, err |-> "none",
              faults |-> 0, takenBy |-> <<>>, insertAfterReturn |-> FALSE]

\* ReplicateArticlesMongoToPostgres up to the loops of processBatches: the
\* schema, the articles of Mongo, and in the parallel version the jobs, the
\* closed jobs channel, the five goroutines and the one that closes results.
ReplicateCall ==
  /\ rep.pc = "ready"
  /\ \/ /\ rep.faults < MaxReplicaFaults
        /\ \E e \in {"create article table: connection lost",
                     "mongo: connection lost"} :
             rep' = [rep EXCEPT !.pc = "returned", !.err = e, !.faults = @ + 1]
     \/ LET n == Len(rep.articles)
        IN  rep' = [rep EXCEPT
                      !.pc = IF rep.parallel THEN "collect" ELSE "sequential",
                      !.jobs = IF rep.parallel THEN batchJobs(0, n) ELSE <<>>,
                      !.resultsCap = numBatches(n),
                      !.wg = IF rep.parallel THEN numWorkers ELSE 0,
                      !.workers = [w \in RepWorkers |->
                                     [IdleRepWorker EXCEPT
                                        !.pc = IF rep.parallel THEN "recv" ELSE "idle"]],
                      !.closer = IF rep.parallel THEN "waiting" ELSE "none"]
  /\ UNCHANGED <<exceptRep, runVars>>

\* for job := range jobs: the goroutine takes the next job, or leaves when the
\* closed channel is empty (defer wg.Done()).
RepWorkerReceive(w) ==
  /\ rep.pc \in {"collect", "returned"}
  /\ rep.parallel
  /\ rep.workers[w].pc = "recv"
  /\ IF rep.jobs = <<>>
     THEN rep' = [rep EXCEPT !.workers[w].pc = "done", !.wg = @ - 1]
     ELSE rep' = [rep EXCEPT !.workers[w].pc = "check",
                             !.workers[w].job = Head(rep.jobs),
                             !.jobs = Tail(rep.jobs),
                             !.takenBy = Append(@, <<Head(rep.jobs).start, w>>)]
  /\ UNCHANGED <<exceptRep, runVars>>

\* processBatch up to the insert: the query for the rows that exist, and the
\* articles left to insert.
RepWorkerCheck(w) ==
  /\ rep.pc \in {"collect", "returned"}
  /\ rep.workers[w].pc = "check"
  /\ LET job == rep.workers[w].job
         batch == Slice(rep.articles, job.start, job.end)
         toInsert ==
           filterNewArticlesByURL(batch, checkURLsExistInPostgres(rep.table, batch))
     IN  \/ /\ rep.faults < MaxReplicaFaults
            /\ extractURLsFromBatch(batch) # {}
            /\ rep' = [rep EXCEPT
                 !.faults = @ + 1,
                 !.workers[w].pc = "send",
                 !.workers[w].result =
                   [processed |-> Len(batch), inserted |-> 0,
                    err |-> "check existing URLs for batch " \o BatchRange(job)
                              \o ": query existing urls: connection lost"]]
         \/ rep' = [rep EXCEPT
              !.workers[w].pc = IF toInsert = <<>> THEN "send" ELSE "insert",
              !.workers[w].toInsert = toInsert,
              !.workers[w].result =
                [processed |-> Len(batch), inserted |-> 0, err |-> "nil"]]
  /\ UNCHANGED <<exceptRep, runVars>>

\* processBatch from insertArticlesTx on: the transaction and its outcome.
RepWorkerInsert(w) ==
  /\ rep.pc \in {"collect", "returned"}
  /\ rep.workers[w].pc = "insert"
  /\ LET job == rep.workers[w].job
         toInsert == rep.workers[w].toInsert
     IN  \/ /\ rep.faults < MaxReplicaFaults
            /\ rep' = [rep EXCEPT
                 !.faults = @ + 1,
                 !.table = insertArticlesTx(rep.table, toInsert, TRUE),
                 !.insertAfterReturn = @ \/ rep.pc = "returned",
                 !.workers[w].pc = "send",
                 !.workers[w].result.err =
                   "insert batch " \o BatchRange(job) \o ": commit: connection lost"]
         \/ rep' = [rep EXCEPT
              !.table = insertArticlesTx(rep.table, toInsert, FALSE),
              !.insertAfterReturn = @ \/ rep.pc = "returned",
              !.workers[w].pc = "send",
              !.workers[w].result.inserted = Len(toInsert)]
  /\ UNCHANGED <<exceptRep, runVars>>

\* results <- batchResult{...}
RepWorkerSend(w) ==
  /\ rep.pc \in {"collect", "returned"}
  /\ rep.workers[w].pc = "send"
  /\ Len(rep.results) < rep.resultsCap
  /\ rep' = [rep EXCEPT !.results = Append(@, rep.workers[w].result),
                        !.workers[w].pc = "recv"]
  /\ UNCHANGED <<exceptRep, runVars>>

\* go func() { wg.Wait(); close(results) }()
RepCloser ==
  /\ rep.pc \in {"collect", "returned"}
  /\ rep.closer = "waiting"
  /\ rep.wg = 0
  /\ rep' = [rep EXCEPT !.closer = "done", !.resultsClosed = TRUE]
  /\ UNCHANGED <<exceptRep, runVars>>

\* for result := range results: one result, or the end of the closed channel.
RepCollect ==
  /\ rep.pc = "collect"
  /\ IF rep.results # <<>>
     THEN LET result == Head(rep.results)
          IN  IF result.err # "nil"
              THEN rep' = [rep EXCEPT !.results = Tail(@), !.pc = "returned",
                                      !.err = result.err]
              ELSE rep' = [rep EXCEPT
                             !.results = Tail(@),
                             !.totalProcessed = @ + result.processed,
                             !.totalInserted = @ + result.inserted]
     ELSE /\ rep.resultsClosed
          /\ rep' = [rep EXCEPT !.pc = "returned", !.err = "nil"]
  /\ UNCHANGED <<exceptRep, runVars>>

\* One turn of the loop of the sequential processBatches: the next batch goes
\* through processBatch, and its error, if any, ends the loop.
RepSequentialBatch ==
  /\ rep.pc = "sequential"
  /\ LET n == Len(rep.articles)
         job == [start |-> rep.start,
                 end |-> calculateBatchEnd(rep.start, processBatchSize, n)]
         batch == Slice(rep.articles, job.start, job.end)
         toInsert ==
           filterNewArticlesByURL(batch, checkURLsExistInPostgres(rep.table, batch))
     IN  IF rep.start < n
         THEN \/ /\ rep.faults < MaxReplicaFaults
                 /\ extractURLsFromBatch(batch) # {}
                 /\ rep' = [rep EXCEPT
                      !.faults = @ + 1, !.pc = "returned",
                      !.err = "check existing URLs for batch " \o BatchRange(job)
                                \o ": query existing urls: connection lost"]
              \/ /\ rep.faults < MaxReplicaFaults
                 /\ toInsert # <<>>
                 /\ rep' = [rep EXCEPT
                      !.faults = @ + 1, !.pc = "returned",
                      !.table = insertArticlesTx(rep.table, toInsert, TRUE),
                      !.err = "insert batch " \o BatchRange(job)
                                \o ": commit: connection lost"]
              \/ rep' = [rep EXCEPT
                   !.table = IF toInsert = <<>> THEN rep.table
                             ELSE insertArticlesTx(rep.table, toInsert, FALSE),
                   !.takenBy = Append(@, <<job.start, 0>>),
                   !.totalProcessed = @ + Len(batch),
                   !.totalInserted = @ + Len(toInsert),
                   !.start = rep.start + processBatchSize]
         ELSE rep' = [rep EXCEPT !.pc = "returned", !.err = "nil"]
  /\ UNCHANGED <<exceptRep, runVars>>

RepWorkerStep(w) ==
  \/ RepWorkerReceive(w)
  \/ RepWorkerCheck(w)
  \/ RepWorkerInsert(w)
  \/ RepWorkerSend(w)

NextReplicate ==
  \/ ReplicateCall
  \/ \E w \in RepWorkers : RepWorkerStep(w)
  \/ RepCloser
  \/ RepCollect
  \/ RepSequentialBatch

SpecReplicate == InitReplicate /\ [][NextReplicate]_vars

\* ------------------------------------- TwoLevelManager.ProcessPaginatedPages
\* Config: the two worker counts, the pages of a batch, the page limit
\* (0 = unlimited), and the site: its pages 1..sitePages list one article each,
\* the pages after them none.
TwoLevelConfigs ==
  [urlFetcherWorkers : 1..MaxURLFetchers, contentWorkers : 1..MaxContentWorkers,
   pagesPerBatch : 1..MaxPagesPerBatch, maxPages : 0..MaxPageLimit,
   sitePages : 0..MaxSitePages]

\* htmlFetcher.Fetch(fmt.Sprintf(m.baseURLPattern, pageNum)): the article URLs
\* of the page; a page without articles is an error of the fetcher.
PageArticles(cfg, pageNum) ==
  IF pageNum <= cfg.sitePages
  THEN [urls |-> <<"article" \o ToString(pageNum)>>, err |-> "nil"]
  ELSE [urls |-> <<>>, err |-> "no URLs found in HTML"]

\* PageRange{Start: currentPage, End: currentPage + m.pagesPerBatch - 1}
PageRangeFrom(currentPage, pagesPerBatch) ==
  [Start |-> currentPage, End |-> currentPage + pagesPerBatch - 1]

NoPageRange == [Start |-> 0, End |-> 0]

\* The number of pages that a sequence of ranges covers.
RECURSIVE PagesCovered(_)
PagesCovered(ranges) ==
  IF ranges = <<>> THEN 0
  ELSE (Head(ranges).End - Head(ranges).Start + 1) + PagesCovered(Tail(ranges))

InitTwoLevel ==
  /\ AdaptersIdle
  /\ cp = IdleCall
  /\ rep = IdleCall
  /\ mgr = IdleCall
  /\ pod = IdleCall
  /\ \E cfg \in TwoLevelConfigs :
       tl = [pc |-> "ready", config |-> cfg, ctxDone |-> FALSE,
             pageRangeChan |-> <<>>, pageRangeClosed |-> FALSE,
             urlChan |-> <<>>, urlClosed |-> FALSE,
             urlFetcherWg |-> 0, contentWg |-> 0,
             generator |-> [pc |-> "none", currentPage |-> 1, pagesProcessed |-> 0],
             fetchers |-> [w \in 1..cfg.urlFetcherWorkers |->
                             [pc |-> "none", pageRange |-> NoPageRange,
                              pageNum |-> 0, urls |-> <<>>]],
             workers |-> [w \in 1..cfg.contentWorkers |-> "none"],
             workerURL |-> [w \in 1..cfg.contentWorkers |-> ""],
             processed |-> EmptyBag,
             sentRanges |-> <<>>, pageRangeCloses |-> <<>>, urlCloses |-> 0,
             sendOnClosed |-> FALSE]

\* ProcessPaginatedPages up to urlFetcherWg.Wait(): the two channels, the
\* content workers, the URL fetchers and the goroutine of generatePageRanges.
ProcessPaginatedPagesCall ==
  /\ tl.pc = "ready"
  /\ tl' = [tl EXCEPT
       !.pc = "waitFetchers",
       !.contentWg = tl.config.contentWorkers,
       !.urlFetcherWg = tl.config.urlFetcherWorkers,
       !.workers = [w \in DOMAIN tl.workers |-> "recv"],
       !.fetchers = [w \in DOMAIN tl.fetchers |-> [tl.fetchers[w] EXCEPT !.pc = "recv"]],
       !.generator.pc = "check"]
  /\ UNCHANGED <<exceptTl, runVars>>

\* The caller's context is cancelled or times out.
TwoLevelCancel ==
  /\ tl.pc \in {"waitFetchers", "waitContent"}
  /\ ~tl.ctxDone
  /\ tl' = [tl EXCEPT !.ctxDone = TRUE]
  /\ UNCHANGED <<exceptTl, runVars>>

\* generatePageRanges returns: defer close(pageRangeChan).
GeneratorReturns(t) ==
  [t EXCEPT !.generator.pc = "done", !.pageRangeClosed = TRUE,
            !.pageRangeCloses = Append(@, "generator")]

\* generatePageRanges at the head of its loop: the cancellation check and the
\* page limit; then htmlFetcher.Fetch is called for the first page of the batch.
GeneratorCheck ==
  /\ tl.pc # "ready"
  /\ tl.generator.pc = "check"
  /\ LET g == tl.generator
     IN  IF tl.ctxDone
         THEN tl' = GeneratorReturns(tl)
         ELSE IF tl.config.maxPages > 0 /\ g.pagesProcessed >= tl.config.maxPages
         THEN tl' = GeneratorReturns(tl)
         ELSE tl' = [tl EXCEPT !.generator.pc = "fetch"]
  /\ UNCHANGED <<exceptTl, runVars>>

\* generatePageRanges: htmlFetcher.Fetch returns; an error or no URL ends the
\* generator, else it goes to the send of the range.
GeneratorFetch ==
  /\ tl.pc # "ready"
  /\ tl.generator.pc = "fetch"
  /\ LET page == PageArticles(tl.config, tl.generator.currentPage)
     IN  IF page.err # "nil" \/ Len(page.urls) = 0
         THEN tl' = GeneratorReturns(tl)
         ELSE tl' = [tl EXCEPT !.generator.pc = "send"]
  /\ UNCHANGED <<exceptTl, runVars>>

\* select { case pageRangeChan <- pageRange: ... case <-ctx.Done(): return },
\* and the move to the next batch.
GeneratorSend ==
  /\ tl.pc # "ready"
  /\ tl.generator.pc = "send"
  /\ LET g == tl.generator
         pageRange == PageRangeFrom(g.currentPage, tl.config.pagesPerBatch)
     IN  \/ /\ Len(tl.pageRangeChan) < tl.config.urlFetcherWorkers * 2
            /\ tl' = [tl EXCEPT
                 !.pageRangeChan = Append(@, pageRange),
                 !.sentRanges = Append(@, pageRange),
                 !.sendOnClosed = @ \/ tl.pageRangeClosed,
                 !.generator = [pc |-> "check",
                                currentPage |-> g.currentPage + tl.config.pagesPerBatch,
                                pagesProcessed |-> g.pagesProcessed + tl.config.pagesPerBatch]]
         \/ /\ tl.ctxDone
            /\ tl' = GeneratorReturns(tl)
  /\ UNCHANGED <<exceptTl, runVars>>

\* A URL fetcher returns: defer wg.Done().
URLFetcherReturns(t, w) ==
  [t EXCEPT !.fetchers[w].pc = "done", !.urlFetcherWg = @ - 1]

\* The select of a URL fetcher: the next page range, the end of the closed
\* channel, or the cancellation.
URLFetcherReceive(w) ==
  /\ tl.pc # "ready"
  /\ tl.fetchers[w].pc = "recv"
  /\ \/ /\ tl.pageRangeChan # <<>>
        /\ tl' = [tl EXCEPT
             !.pageRangeChan = Tail(@),
             !.fetchers[w] = [pc |-> "page", pageRange |-> Head(tl.pageRangeChan),
                              pageNum |-> Head(tl.pageRangeChan).Start,
                              urls |-> <<>>]]
     \/ /\ tl.pageRangeChan = <<>>
        /\ tl.pageRangeClosed
        /\ tl' = URLFetcherReturns(tl, w)
     \/ /\ tl.ctxDone
        /\ tl' = URLFetcherReturns(tl, w)
  /\ UNCHANGED <<exceptTl, runVars>>

\* processPageRange at the head of its loop: the end of the range and the
\* cancellation check; then fetchURLsFromPage is called for the page.
URLFetcherPage(w) ==
  /\ tl.pc # "ready"
  /\ tl.fetchers[w].pc = "page"
  /\ LET f == tl.fetchers[w]
     IN  IF f.pageNum > f.pageRange.End \/ tl.ctxDone
         THEN tl' = [tl EXCEPT !.fetchers[w].pc = "recv"]
         ELSE tl' = [tl EXCEPT !.fetchers[w].pc = "fetch"]
  /\ UNCHANGED <<exceptTl, runVars>>

\* processPageRange: fetchURLsFromPage returns; an error is logged and the loop
\* goes on with the next page, else the URLs of the page are to be sent.
URLFetcherFetch(w) ==
  /\ tl.pc # "ready"
  /\ tl.fetchers[w].pc = "fetch"
  /\ LET page == PageArticles(tl.config, tl.fetchers[w].pageNum)
     IN  IF page.err # "nil"
         THEN tl' = [tl EXCEPT !.fetchers[w].pc = "page",
                               !.fetchers[w].pageNum = @ + 1]
         ELSE tl' = [tl EXCEPT !.fetchers[w].pc = "emit",
                               !.fetchers[w].urls = page.urls]
  /\ UNCHANGED <<exceptTl, runVars>>

\* for _, url := range urls { select { case urlChan <- url: case <-ctx.Done(): } }
URLFetcherEmit(w) ==
  /\ tl.pc # "ready"
  /\ tl.fetchers[w].pc = "emit"
  /\ LET f == tl.fetchers[w]
     IN  IF f.urls = <<>>
         THEN tl' = [tl EXCEPT !.fetchers[w].pc = "page",
                               !.fetchers[w].pageNum = @ + 1]
         ELSE \/ /\ Len(tl.urlChan) < tl.config.contentWorkers * 2
                 /\ tl' = [tl EXCEPT !.urlChan = Append(@, Head(f.urls)),
                                     !.sendOnClosed = @ \/ tl.urlClosed,
                                     !.fetchers[w].urls = Tail(@)]
              \/ /\ tl.ctxDone
                 /\ tl' = [tl EXCEPT !.fetchers[w].pc = "recv",
                                     !.fetchers[w].urls = <<>>]
  /\ UNCHANGED <<exceptTl, runVars>>

\* The select of a content worker: the next URL, for which ProcessURL is
\* called; the end of the closed channel; or the cancellation.
TwoLevelContentWorker(w) ==
  /\ tl.pc # "ready"
  /\ tl.workers[w] = "recv"
  /\ \/ /\ tl.urlChan # <<>>
        /\ tl' = [tl EXCEPT !.urlChan = Tail(@),
                            !.workers[w] = "process",
                            !.workerURL[w] = Head(tl.urlChan)]
     \/ /\ tl.urlChan = <<>>
        /\ tl.urlClosed
        /\ tl' = [tl EXCEPT !.workers[w] = "done", !.contentWg = @ - 1]
     \/ /\ tl.ctxDone
        /\ tl' = [tl EXCEPT !.workers[w] = "done", !.contentWg = @ - 1]
  /\ UNCHANGED <<exceptTl, runVars>>

\* contentWorker.ProcessURL(ctx, url) returns; its error, if any, is logged
\* and nothing else, and the worker is at its select again.
TwoLevelContentProcess(w) ==
  /\ tl.pc # "ready"
  /\ tl.workers[w] = "process"
  /\ tl' = [tl EXCEPT !.workers[w] = "recv",
                      !.workerURL[w] = "",
                      !.processed = @ (+) SetToBag({tl.workerURL[w]})]
  /\ UNCHANGED <<exceptTl, runVars>>

\* close(urlChan) without the wait for the URL fetchers.
TwoLevelCloseURLChanEarly ==
  /\ tl.pc = "waitFetchers"
  /\ tl' = [tl EXCEPT !.pc = "waitContent", !.urlClosed = TRUE, !.urlCloses = @ + 1]
  /\ UNCHANGED <<exceptTl, runVars>>

\* urlFetcherWg.Wait(); close(urlChan)
TwoLevelCloseURLChan ==
  /\ tl.pc = "waitFetchers"
  /\ tl.urlFetcherWg = 0
  /\ tl' = [tl EXCEPT !.pc = "waitContent", !.urlClosed = TRUE, !.urlCloses = @ + 1]
  /\ UNCHANGED <<exceptTl, runVars>>

\* contentWg.Wait(); return nil
TwoLevelReturn ==
  /\ tl.pc = "waitContent"
  /\ tl.contentWg = 0
  /\ tl' = [tl EXCEPT !.pc = "returned"]
  /\ UNCHANGED <<exceptTl, runVars>>

\* A step of ProcessPaginatedPages or of one of its goroutines.
TwoLevelStep ==
  \/ ProcessPaginatedPagesCall
  \/ GeneratorCheck
  \/ GeneratorFetch
  \/ GeneratorSend
  \/ \E w \in DOMAIN tl.fetchers :
       \/ URLFetcherReceive(w)
       \/ URLFetcherPage(w)
       \/ URLFetcherFetch(w)
       \/ URLFetcherEmit(w)
  \/ \E w \in DOMAIN tl.workers :
       TwoLevelContentWorker(w) \/ TwoLevelContentProcess(w)
  \/ TwoLevelCloseURLChan
  \/ TwoLevelReturn

NextTwoLevel == TwoLevelStep \/ TwoLevelCancel

\* Every goroutine that can take a step is scheduled in the end.
SpecTwoLevel == InitTwoLevel /\ [][NextTwoLevel]_vars /\ WF_vars(TwoLevelStep)

\* ------------------------------------------------------- Manager.ProcessURLs
\* The URL lists handed to ProcessURLs: up to MaxJobs URLs, repeats included.
JobLists == UNION {[1..n -> {"u1", "u2"}] : n \in 0..MaxJobs}

\* A ProcessURLs that fails as soon as one URL failed.
processURLsErrorOnAnyFailure(successCount, errorCount) ==
  IF errorCount > 0
  THEN "all " \o ToString(errorCount) \o " URLs failed to process"
  ELSE "nil"

\* The end of ProcessURLs: an error when every URL failed, else nil.
processURLsError(successCount, errorCount) ==
  IF errorCount > 0 /\ successCount = 0
  THEN "all " \o ToString(errorCount) \o " URLs failed to process"
  ELSE "nil"

\* A Manager of workerCount workers before ProcessURLs(ctx, urls); withResults
\* tells the version that collects the outcomes over a results channel from the
\* one whose workers count them under a mutex.
InitManager ==
  /\ AdaptersIdle
  /\ cp = IdleCall
  /\ rep = IdleCall
  /\ tl = IdleCall
  /\ pod = IdleCall
  /\ \E urls \in JobLists, workerCount \in 1..MaxManagerWorkers,
        withResults \in BOOLEAN :
       mgr = [pc |-> "ready", urls |-> urls, workerCount |-> workerCount,
              withResults |-> withResults, jobChan |-> <<>>,
              resultsChan |-> <<>>, resultsClosed |-> FALSE, closer |-> "none",
              wg |-> 0,
              workers |-> [w \in 0..(workerCount - 1) |-> [pc |-> "none", url |-> "",
                                                           success |-> FALSE]],
              successCount |-> 0, errorCount |-> 0, err |-> "none",
              calls |-> EmptyBag, failed |-> 0]

\* ProcessURLs up to the aggregation: the job channel filled and closed, the
\* workers started, and the goroutine that closes the results channel.
ProcessURLsCall ==
  /\ mgr.pc = "ready"
  /\ mgr' = [mgr EXCEPT
       !.pc = IF mgr.withResults THEN "aggregate" ELSE "wait",
       !.jobChan = mgr.urls,
       !.wg = mgr.workerCount,
       !.workers = [w \in DOMAIN mgr.workers |-> [mgr.workers[w] EXCEPT !.pc = "range"]],
       !.closer = IF mgr.withResults THEN "waiting" ELSE "none"]
  /\ UNCHANGED <<exceptMgr, runVars>>

\* for url := range jobChan: the worker takes the next URL, or leaves at the end
\* of the closed channel (defer wg.Done()).
ManagerWorkerRange(w) ==
  /\ mgr.pc # "ready"
  /\ mgr.workers[w].pc = "range"
  /\ IF mgr.jobChan = <<>>
     THEN mgr' = [mgr EXCEPT !.workers[w].pc = "done", !.wg = @ - 1]
     ELSE mgr' = [mgr EXCEPT !.workers[w].pc = "process",
                             !.workers[w].url = Head(mgr.jobChan),
                             !.jobChan = Tail(@)]
  /\ UNCHANGED <<exceptMgr, runVars>>

\* err := w.ProcessURL(ctx, url)
ManagerWorkerProcess(w) ==
  /\ mgr.pc # "ready"
  /\ mgr.workers[w].pc = "process"
  /\ \E ok \in BOOLEAN :
       mgr' = [mgr EXCEPT
         !.workers[w].pc = "report",
         !.workers[w].success = ok,
         !.calls = @ (+) SetToBag({[url |-> mgr.workers[w].url, workerID |-> w]}),
         !.failed = IF ok THEN @ ELSE @ + 1]
  /\ UNCHANGED <<exceptMgr, runVars>>

\* The worker reports the outcome: resultsChan <- result{...}, or, in the
\* version without results channel, the counters under the mutex.
ManagerWorkerReport(w) ==
  /\ mgr.pc # "ready"
  /\ mgr.workers[w].pc = "report"
  /\ IF mgr.withResults
     THEN /\ Len(mgr.resultsChan) < Len(mgr.urls)
          /\ mgr' = [mgr EXCEPT
               !.workers[w].pc = "range",
               !.resultsChan = Append(@, [success |-> mgr.workers[w].success,
                                          url |-> mgr.workers[w].url,
                                          workerID |-> w])]
     ELSE mgr' = [mgr EXCEPT
            !.workers[w].pc = "range",
            !.successCount = IF mgr.workers[w].success THEN @ + 1 ELSE @,
            !.errorCount = IF mgr.workers[w].success THEN @ ELSE @ + 1]
  /\ UNCHANGED <<exceptMgr, runVars>>

\* go func() { wg.Wait(); close(resultsChan) }()
ManagerCloser ==
  /\ mgr.closer = "waiting"
  /\ mgr.wg = 0
  /\ mgr' = [mgr EXCEPT !.closer = "done", !.resultsClosed = TRUE]
  /\ UNCHANGED <<exceptMgr, runVars>>

\* for res := range resultsChan: one result is counted; at the end of the
\* closed channel ProcessURLs returns.
ManagerAggregate ==
  /\ mgr.pc = "aggregate"
  /\ IF mgr.resultsChan # <<>>
     THEN mgr' = [mgr EXCEPT
            !.resultsChan = Tail(@),
            !.successCount = IF Head(mgr.resultsChan).success THEN @ + 1 ELSE @,
            !.errorCount = IF Head(mgr.resultsChan).success THEN @ ELSE @ + 1]
     ELSE /\ mgr.resultsClosed
          /\ mgr' = [mgr EXCEPT
               !.pc = "returned",
               !.err = processURLsError(mgr.successCount, mgr.errorCount)]
  /\ UNCHANGED <<exceptMgr, runVars>>

\* wg.Wait() of the version without results channel, and the return.
ManagerWait ==
  /\ mgr.pc = "wait"
  /\ mgr.wg = 0
  /\ mgr' = [mgr EXCEPT
       !.pc = "returned",
       !.err = processURLsError(mgr.successCount, mgr.errorCount)]
  /\ UNCHANGED <<exceptMgr, runVars>>

NextManager ==
  \/ ProcessURLsCall
  \/ \E w \in DOMAIN mgr.workers :
       ManagerWorkerRange(w) \/ ManagerWorkerProcess(w) \/ ManagerWorkerReport(w)
  \/ ManagerCloser
  \/ ManagerAggregate
  \/ ManagerWait

\* Every goroutine that can take a step is scheduled in the end.
SpecManager == InitManager /\ [][NextManager]_vars /\ WF_vars(NextManager)

\* ------------------------- podcasttranscriptservice.processEpisodeURLsInParallel
\* SetWorkers(workers): a count of zero or less is coerced to 1.
SetWorkers(workers) == IF workers <= 0 THEN 1 ELSE workers

\* The episode URLs of a sitemap: up to MaxEpisodes, in order.
EpisodeLists == {[i \in 1..n |-> "episode" \o ToString(i)] : n \in 0..MaxEpisodes}

\* A Service after SetWorkers, before processEpisodeURLsInParallel is called.
InitPodcast ==
  /\ AdaptersIdle
  /\ cp = IdleCall
  /\ rep = IdleCall
  /\ tl = IdleCall
  /\ mgr = IdleCall
  /\ \E episodeURLs \in EpisodeLists, requested \in 0..MaxEpisodeWorkers :
       pod = [pc |-> "ready", episodeURLs |-> episodeURLs,
              workers |-> SetWorkers(requested), ctxDone |-> FALSE,
              next |-> 1, jobsMade |-> FALSE, jobsClosed |-> FALSE, closes |-> 0,
              sendOnClosed |-> FALSE, wg |-> 0,
              worker |-> [w \in 1..SetWorkers(requested) |->
                            [pc |-> "none", episodeURL |-> ""]],
              err |-> "none", received |-> <<>>, processed |-> {}, failed |-> {},
              cancelledAt |-> 0]

\* processEpisodeURLsInParallel up to its loop: nil for an empty list, else the
\* unbuffered jobs channel and the workers.
ProcessEpisodeURLsCall ==
  /\ pod.pc = "ready"
  /\ IF Len(pod.episodeURLs) = 0
     THEN pod' = [pod EXCEPT !.pc = "returned", !.err = "nil"]
     ELSE pod' = [pod EXCEPT
            !.pc = "loop", !.jobsMade = TRUE, !.wg = pod.workers,
            !.worker = [w \in DOMAIN pod.worker |-> [pc |-> "range", episodeURL |-> ""]]]
  /\ UNCHANGED <<exceptPod, runVars>>

\* The caller's context is cancelled; cancelledAt keeps the index of the URL
\* that was next at that moment.
PodcastCancel ==
  /\ pod.pc \in {"ready", "loop", "wait"}
  /\ ~pod.ctxDone
  /\ pod' = [pod EXCEPT !.ctxDone = TRUE, !.cancelledAt = pod.next]
  /\ UNCHANGED <<exceptPod, runVars>>

\* close(jobs) and a return without wg.Wait().
closeJobsWithoutWait(p, err) ==
  [p EXCEPT !.pc = "returned", !.jobsClosed = TRUE, !.closes = @ + 1, !.err = err]

\* close(jobs), after which the caller is at wg.Wait() with its result at hand.
closeJobs(p, err) ==
  [p EXCEPT !.pc = "wait", !.jobsClosed = TRUE, !.closes = @ + 1, !.err = err]

\* The case "jobs <- episodeURL" of the select: the channel has no buffer, so
\* the send happens together with the receive of a worker that waits in
\* "for episodeURL := range jobs".
PodcastDispatch(w) ==
  /\ pod.pc = "loop"
  /\ pod.next <= Len(pod.episodeURLs)
  /\ pod.worker[w].pc = "range"
  /\ pod' = [pod EXCEPT
       !.next = @ + 1,
       !.sendOnClosed = @ \/ pod.jobsClosed,
       !.worker[w] = [pc |-> "process", episodeURL |-> pod.episodeURLs[pod.next]],
       !.received = Append(@, [index |-> pod.next, worker |-> w])]
  /\ UNCHANGED <<exceptPod, runVars>>

\* The case "<-ctx.Done()" of the select: close(jobs); wg.Wait(); return ctx.Err().
PodcastLoopCancelled ==
  /\ pod.pc = "loop"
  /\ pod.next <= Len(pod.episodeURLs)
  /\ pod.ctxDone
  /\ pod' = closeJobs(pod, "context canceled")
  /\ UNCHANGED <<exceptPod, runVars>>

\* After the loop: close(jobs); wg.Wait(); return nil.
PodcastLoopEnd ==
  /\ pod.pc = "loop"
  /\ pod.next > Len(pod.episodeURLs)
  /\ pod' = closeJobs(pod, "nil")
  /\ UNCHANGED <<exceptPod, runVars>>

\* _ = s.processEpisodeURL(ctx, episodeURL): whatever it returns, the worker
\* goes back to the channel.
PodcastWorkerProcess(w) ==
  /\ pod.pc \in {"loop", "wait", "returned"}
  /\ pod.worker[w].pc = "process"
  /\ \E ok \in BOOLEAN :
       pod' = [pod EXCEPT
         !.worker[w].pc = "range",
         !.processed = @ \cup {pod.worker[w].episodeURL},
         !.failed = IF ok THEN @ ELSE @ \cup {pod.worker[w].episodeURL}]
  /\ UNCHANGED <<exceptPod, runVars>>

\* The end of "range jobs" on the closed channel: defer wg.Done().
PodcastWorkerExit(w) ==
  /\ pod.pc \in {"loop", "wait", "returned"}
  /\ pod.worker[w].pc = "range"
  /\ pod.jobsClosed
  /\ pod' = [pod EXCEPT !.worker[w].pc = "done", !.wg = @ - 1]
  /\ UNCHANGED <<exceptPod, runVars>>

\* wg.Wait() and the return.
PodcastWait ==
  /\ pod.pc = "wait"
  /\ pod.wg = 0
  /\ pod' = [pod EXCEPT !.pc = "returned"]
  /\ UNCHANGED <<exceptPod, runVars>>

NextPodcast ==
  \/ ProcessEpisodeURLsCall
  \/ PodcastCancel
  \/ \E w \in DOMAIN pod.worker :
       PodcastDispatch(w) \/ PodcastWorkerProcess(w) \/ PodcastWorkerExit(w)
  \/ PodcastLoopCancelled
  \/ PodcastLoopEnd
  \/ PodcastWait

SpecPodcast == InitPodcast /\ [][NextPodcast]_vars

\* ---------------------------------- ParseFromURL over sitemaps that refer to
\* one another. The sitemaps of a site by URL: an index lists the Locations of
\* other sitemaps of the site (its own among them, or an empty one), a regular
\* sitemap lists so many pages, and "error" is a document that cannot be had.
SitemapURLs == {"https://site.com/sitemap" \o ToString(i) \o ".xml" : i \in 1..MaxSitemaps}

RootSitemapURL == "https://site.com/sitemap1.xml"

SitemapWebDocs ==
  {NoDocument}
    \cup {[kind |-> "urlset", pages |-> n] : n \in 0..1}
    \cup {[kind |-> "index", refs |-> r] :
            r \in UNION {[1..n -> SitemapURLs \cup {""}] : n \in 0..MaxSitemapRefs}}

SitemapWebs == [SitemapURLs -> SitemapWebDocs]

\* parseSitemapIndex: the non-empty Locations of the index, in order.
indexLocations(refs) == SelectSeq(refs, LAMBDA location : location # "")

\* parseSitemap: the pages of a regular sitemap.
sitemapPages(url, doc) == [k \in 1..doc.pages |-> url \o "#" \o ToString(k)]

\* A call of ParseFromURL(url) that has not fetched yet.
ParseFromURLFrame(url) ==
  [url |-> url, at |-> "fetch", sitemapURLs |-> <<>>, k |-> 1, allURLs |-> <<>>]

\* The innermost call returns (urls, err): the caller's loop skips a failed
\* child and appends the URLs of the others; the outermost call hands the
\* result to the caller of the parser.
SitemapReturn(s, urls, err) ==
  LET depth == Len(s.stack)
  IN  IF depth = 1
      THEN [s EXCEPT !.pc = "returned", !.stack = <<>>,
                     !.result = [err |-> err, urls |-> urls]]
      ELSE [s EXCEPT
              !.stack = [j \in 1..(depth - 1) |->
                           IF j < depth - 1 THEN s.stack[j]
                           ELSE [s.stack[j] EXCEPT
                                   !.k = @ + 1,
                                   !.allURLs = IF err THEN @ ELSE @ \o urls]]]

InitSitemapWeb ==
  /\ NoPipeline
  /\ filters = <<>>
  /\ bf = IdleFetch
  /\ gen = IdleGen
  /\ store = IdleStore
  /\ CallsIdle
  /\ \E web \in SitemapWebs :
       sm = [pc |-> "ready", web |-> web, stack |-> <<>>,
             fetches |-> [u \in SitemapURLs |-> 0],
             result |-> [err |-> FALSE, urls |-> <<>>]]

\* ParseFromURL(url) is called on the root sitemap.
SitemapWebCall ==
  /\ sm.pc = "ready"
  /\ sm' = [sm EXCEPT !.pc = "running", !.stack = <<ParseFromURLFrame(RootSitemapURL)>>]
  /\ UNCHANGED <<steps, contentConsumer, standalone, filters, bf, gen, store, runVars>>

\* The innermost ParseFromURL from the GET to the loop over an index: an error
\* for a document that cannot be had, the pages of a regular sitemap, an error
\* for an index without Location.
SitemapWebFetch ==
  /\ sm.pc = "running"
  /\ LET depth == Len(sm.stack)
         frame == sm.stack[depth]
         doc == sm.web[frame.url]
         fetched == [sm EXCEPT !.fetches[frame.url] = @ + 1]
     IN  /\ frame.at = "fetch"
         /\ sm' = IF doc.kind = "error" THEN SitemapReturn(fetched, <<>>, TRUE)
                  ELSE IF doc.kind = "urlset"
                  THEN SitemapReturn(fetched, sitemapPages(frame.url, doc), FALSE)
                  ELSE IF indexLocations(doc.refs) = <<>>
                  THEN SitemapReturn(fetched, <<>>, TRUE)
                  ELSE [fetched EXCEPT
                          !.stack[depth].at = "loop",
                          !.stack[depth].sitemapURLs = indexLocations(doc.refs)]
  /\ UNCHANGED <<steps, contentConsumer, standalone, filters, bf, gen, store, runVars>>

\* One turn of the loop over the sitemaps of an index: ParseFromURL is called
\* for the next one; after the last one the call returns what was collected, or
\* an error when that is nothing. Calls nest at most MaxCallDepth deep here.
SitemapWebLoop ==
  /\ sm.pc = "running"
  /\ LET depth == Len(sm.stack)
         frame == sm.stack[depth]
     IN  /\ frame.at = "loop"
         /\ IF frame.k <= Len(frame.sitemapURLs)
            THEN /\ depth < MaxCallDepth
                 /\ sm' = [sm EXCEPT
                      !.stack = Append(@, ParseFromURLFrame(frame.sitemapURLs[frame.k]))]
            ELSE sm' = SitemapReturn(sm, frame.allURLs, frame.allURLs = <<>>)
  /\ UNCHANGED <<steps, contentConsumer, standalone, filters, bf, gen, store, runVars>>

NextSitemapWeb == SitemapWebCall \/ SitemapWebFetch \/ SitemapWebLoop

SpecSitemapWeb == InitSitemapWeb /\ [][NextSitemapWeb]_vars

\* ------------------------------------------------------ derived predicates
\* The Locations listed by the regular sitemaps of a tree, in document order:
\* those of the document, or of the documents its references lead to.
RECURSIVE DiscoveredURLs(_, _)
RECURSIVE DiscoveredFrom(_, _, _)
DiscoveredFrom(refs, url, k) ==
  IF k > Len(refs) THEN <<>>
  ELSE (IF refs[k].hasLocation THEN DiscoveredURLs(refs[k].doc, LocationOf(url, k))
        ELSE <<>>) \o DiscoveredFrom(refs, url, k + 1)

DiscoveredURLs(doc, url) ==
  IF doc.kind = "urlset"
    THEN SelectSeq([k \in 1 .. Len(doc.locs) |->
                      IF doc.locs[k] THEN LocationOf(url, k) ELSE NoURL],
                   LAMBDA u : u # NoURL)
  ELSE IF doc.kind = "index" THEN DiscoveredFrom(doc.refs, url, 1)
  ELSE <<>>

\* The pages K of a site such that HEAD answered 200 for every page up to K and
\* no content check of a tenth page up to K found an empty-content marker.
GoodUpTo(site) ==
  {K \in 0 .. site.lastOk :
     \A k \in 1 .. K : k % 10 = 0 => site.content[k] # "marker"}

\* The largest of them.
LastPage(site) == CHOOSE K \in GoodUpTo(site) : \A J \in GoodUpTo(site) : J <= K

PageURLs(K) == [k \in 1 .. K |-> "https://site.com/page/" \o ToString(k)]

\* The first filter of the list that does not return true for u (one more than
\* the length of the list when every filter returns true).
FirstStop(u) ==
  IF \E j \in 1 .. Len(filters) : u \in filters[j].rejects \cup filters[j].fails
    THEN CHOOSE j \in 1 .. Len(filters) :
           /\ u \in filters[j].rejects \cup filters[j].fails
           /\ \A k \in 1 .. j - 1 : u \notin filters[k].rejects \cup filters[k].fails
    ELSE Len(filters) + 1

\* Every filter returns true for u.
PassesFilters(u) == FirstStop(u) = Len(filters) + 1

\* The filter that ends the evaluation for u returns an error.
FailsFilters(u) == ~PassesFilters(u) /\ u \in filters[FirstStop(u)].fails

\* The invocations for one URL under short-circuit evaluation in list order.
InvocationsFor(u) ==
  [j \in 1 .. (IF PassesFilters(u) THEN Len(filters) ELSE FirstStop(u)) |-> <<j, u>>]

RECURSIVE InvocationsForAll(_)
InvocationsForAll(urls) ==
  IF urls = <<>> THEN <<>> ELSE InvocationsFor(Head(urls)) \o InvocationsForAll(Tail(urls))

\* The sublist of the URLs with a non-empty Location that pass every filter.
RECURSIVE KeptLocations(_)
KeptLocations(urls) ==
  IF urls = <<>> THEN <<>>
  ELSE (IF Head(urls) # NoURL /\ PassesFilters(Head(urls)) THEN <<Head(urls)>> ELSE <<>>)
         \o KeptLocations(Tail(urls))

\* The sublist of the URLs that pass every filter.
RECURSIVE KeptURLs(_)
KeptURLs(urls) ==
  IF urls = <<>> THEN <<>>
  ELSE (IF PassesFilters(Head(urls)) THEN <<Head(urls)>> ELSE <<>>) \o KeptURLs(Tail(urls))

\* The sublist of the URLs with a non-empty Location.
RECURSIVE NonEmptyLocations(_)
NonEmptyLocations(urls) ==
  IF urls = <<>> THEN <<>>
  ELSE (IF Head(urls) # NoURL THEN <<Head(urls)>> ELSE <<>>) \o NonEmptyLocations(Tail(urls))

\* Some filter returns an error for a URL of the list that it is asked about.
SomeFilterFails(urls) == \E k \in 1 .. Len(urls) : FailsFilters(urls[k])

\* The pipeline satisfies the data model: at least one step, exactly one producer
\* in the first step, a Fetcher in every later step, a processor and a saver.
ValidPipeline == NumSteps >= 1 /\ Faults(steps, contentConsumer) = 0

\* Every step has a producer.
ProducersSet ==
  /\ NumSteps >= 1
  /\ Step(0).Generator \/ Step(0).Fetcher
  /\ \A i \in 1 .. NumSteps - 1 : Step(i).Fetcher

\* The channels the pipeline is wired with: the output of every step.
WiredChans ==
  IF NumSteps = 0 THEN {}
  ELSE {firstStepOutput} \cup {getOutputChannelForStep(i) : i \in 1 .. NumSteps - 1}

\* Adapter invocations so far (Generate, Fetch, ProcessContent, SaveArticle).
AdapterCalls ==
  hist.generate + hist.fetchFirst + hist.fetch + BagCardinality(hist.processed)
    + hist.saves

\* No goroutine started by Run is still running.
AllWorkersDone ==
  /\ first.pc \in {"idle", "done"}
  /\ \A k \in LaterSteps \X WorkerIds : sw[k].pc \in {"idle", "done"}
  /\ \A w \in WorkerIds : cw[w].pc \in {"idle", "done"}

\* The worker w of the later step i has returned from startStepWorker's loop and
\* its deferred wg.Done() has run.
StepWorkerReturned(i, w) == sw[<<i, w>>].pc \in {"stepWgDone", "done"}

\* Some producer is suspended on a send to a full sink queue.
BlockedOnFullSinkQueue ==
  /\ Len(chanBuf[ContentChan]) = bufferSize(ContentChan)
  /\ \/ first.pc = "send" /\ firstStepOutput = ContentChan
     \/ \E i \in 1 .. NumSteps - 1, w \in WorkerIds :
          sw[<<i, w>>].pc = "send" /\ getOutputChannelForStep(i) = ContentChan

\* Every content worker has been started.
SinkStarted == \A w \in 0 .. contentConsumer.WorkerCount - 1 : cw[w].pc # "idle"

\* Some worker, and every worker, of the later step i has been started.
SomeStepWorkerStarted(i) == \E w \in 0 .. Step(i).WorkerCount - 1 : sw[<<i, w>>].pc # "idle"

StepStarted(i) == \A w \in 0 .. Step(i).WorkerCount - 1 : sw[<<i, w>>].pc # "idle"

\* The goroutine of the first step has been started.
FirstStarted == first.pc # "idle"

\* A producer that is at a send on a full channel cannot send, and leaves the
\* send only through the case "<-ctx.Done()".
FullQueueBlocksProducers ==
  /\ (first.pc = "send" /\ Len(chanBuf[firstStepOutput]) = bufferSize(firstStepOutput)) =>
       /\ ~ENABLED FirstStepSend
       /\ ENABLED FirstStepSendCancelled => ctxDone
  /\ \A i \in 1 .. NumSteps - 1, w \in WorkerIds :
       (/\ sw[<<i, w>>].pc = "send"
        /\ Len(chanBuf[getOutputChannelForStep(i)]) = bufferSize(getOutputChannelForStep(i))) =>
         /\ ~ENABLED StepWorkerSend(i, w)
         /\ ENABLED StepWorkerSendCancelled(i, w) => ctxDone

\* ------------------------------------------------------------------ claims
\* C1: Run on a pipeline with zero steps returns "pipeline has no steps" at once:
\* no channel is made, no worker is started, no adapter is invoked.
C1_EmptyPipelineRejected ==
  NumSteps = 0 =>
    /\ runPc \in {"idle", "returned"}
    /\ runPc = "returned" => runErr = "pipeline has no steps"
    /\ chanMade = {}
    /\ hist.started = 0
    /\ AdapterCalls = 0
    /\ AllWorkersDone

C1_Witness == NumSteps = 0 /\ runPc = "returned" /\ runErr = "pipeline has no steps"

\* C2: in a run that is not cancelled, when Run returns every URL sent to a
\* channel has been received (no channel holds a URL), every URL sent to the sink
\* channel was handed to ProcessContent, and SaveArticle was called once per
\* successful ProcessContent.
C2_NothingLostAndSavesMatch ==
  (runPc = "returned" /\ ~ctxDone) =>
    /\ \A c \in ChanIds : chanBuf[c] = <<>> /\ hist.rcvd[c] = hist.sent[c]
    /\ ConsumerConfigured => hist.processed = hist.sent[ContentChan]
    /\ hist.saves = hist.processedOk

C2_Witness ==
  /\ runPc = "returned" /\ ~ctxDone /\ NumSteps = 2
  /\ hist.saves >= 2
  /\ hist.processedOk < BagCardinality(hist.processed)

\* C3: channels do not duplicate: what has been received from a channel is a
\* sub-multiset of what was sent to it, and what was handed to ProcessContent is
\* a sub-multiset of what the last step sent to the sink channel.
C3_NoDuplication ==
  /\ \A c \in ChanIds : hist.rcvd[c] \sqsubseteq hist.sent[c]
  /\ hist.processed \sqsubseteq hist.rcvd[ContentChan]
  /\ hist.processed \sqsubseteq hist.sent[ContentChan]

C3_Witness ==
  /\ cw[0].pc = "process" /\ cw[1].pc = "process"
  /\ BagCardinality(hist.sent[ContentChan]) = 2

\* C4 (as claimed): when Run returns (here: for a valid pipeline), every channel
\* it made (every element of channels and contentChan) has been closed exactly once.
C4_EveryMadeChannelClosedOnce ==
  (runPc = "returned" /\ ValidPipeline) => \A c \in chanMade : hist.closes[c] = 1

\* C5: no URL is ever sent on a closed channel: the first step closes its output
\* only after its last send, and the output of a later step is closed only after
\* every worker of that step has returned.
C5_NoSendAfterClose ==
  /\ ~hist.sendOnClosed
  /\ \A c \in ChanIds : hist.closes[c] <= 1
  /\ (NumSteps >= 1 /\ chanClosed[firstStepOutput]) => first.pc \in {"wgDone", "done"}
  /\ \A i \in 1 .. NumSteps - 1 :
       chanClosed[getOutputChannelForStep(i)] =>
         \A w \in WorkerIds : sw[<<i, w>>].pc \in {"idle", "done"}

C5_Witness ==
  /\ NumSteps = 2 /\ ctxDone /\ closer[1] = "done"
  /\ BagCardinality(hist.sent[ContentChan]) >= 1
  /\ Step(1).WorkerCount = 2

\* C6 (as claimed): when Run has returned, every worker it started has ended, so
\* no adapter call is in flight or begins afterwards.
C6_ReturnsAfterAllWorkers == runPc = "returned" => AllWorkersDone

\* C6 (amended): when Run has returned, every worker has left its loop and run
\* its wg.Done(), so that no adapter call is in flight or begins afterwards; the
\* first step and the content workers have ended, a worker of a later step may
\* still have its stepWg.Done() to run.
C6_NoAdapterCallAfterReturn ==
  runPc = "returned" =>
    /\ first.pc \in {"idle", "done"}
    /\ \A i \in LaterSteps, w \in WorkerIds :
         sw[<<i, w>>].pc = "idle" \/ StepWorkerReturned(i, w)
    /\ \A w \in WorkerIds : cw[w].pc \in {"idle", "done"}

C6_Witness ==
  /\ runPc = "returned" /\ runErr = "nil" /\ NumSteps = 2
  /\ \E w \in WorkerIds : sw[<<1, w>>].pc = "stepWgDone"
  /\ hist.exited >= 2

\* C7: with a producer in every step and without cancellation, no state before
\* the return of Run is a deadlock (some step of the program is possible) and Run
\* eventually returns, also when producers have to wait for room in a full queue.
C7_ReturnsWithoutCancel ==
  /\ []((ProducersSet /\ ~ctxDone /\ runPc # "returned") => ENABLED ProgramStep)
  /\ <>(~ProducersSet \/ ctxDone \/ runPc = "returned")

C7_Witness == ProducersSet /\ ~ctxDone /\ BlockedOnFullSinkQueue

\* C8: once the scope is cancelled, every worker eventually ends and Run returns
\* nil (for a pipeline with at least one step).
C8_CancelledRunReturnsNil ==
  ctxDone ~> (runPc = "returned" /\ AllWorkersDone /\ (NumSteps >= 1 => runErr = "nil"))

C8_Witness ==
  /\ ctxDone /\ BlockedOnFullSinkQueue
  /\ \A w \in WorkerIds : cw[w].pc \in {"idle", "done"}

\* C9 (as claimed): when the scope was cancelled before Run started, every
\* channel the pipeline is wired with is closed at the moment Run returns (here:
\* for a valid pipeline, and leaving aside the channel that is made but not wired).
C9_ChannelsClosedAtReturn ==
  (runPc = "returned" /\ hist.cancelledAtStart /\ ValidPipeline) =>
    \A c \in WiredChans : chanClosed[c]

\* C10 (as claimed): for a valid pipeline Run starts, and sees end, as many
\* workers as the sum of all WorkerCounts, the first step's included.
C10_StartsSumOfAllWorkerCounts ==
  (runPc = "returned" /\ ValidPipeline) =>
    /\ hist.started = SumWorkerCount(steps) + contentConsumer.WorkerCount
    /\ hist.exited = SumWorkerCount(steps) + contentConsumer.WorkerCount

\* C10 (amended): for a valid pipeline Run starts one worker for the first step,
\* whatever its WorkerCount, WorkerCount workers for every later step and for the
\* consumer, and when Run returns all of them have run their wg.Done(): they
\* have ended, but for the workers of later steps that still have their
\* stepWg.Done() to run, and no more workers end than were started.
C10_StartsOneFirstStepWorker ==
  /\ hist.exited <= hist.started
  /\ (runPc = "returned" /\ ValidPipeline) =>
       /\ hist.started = 1 + SumWorkerCount(Tail(steps)) + contentConsumer.WorkerCount
       /\ hist.exited
            + Cardinality({k \in LaterSteps \X WorkerIds : sw[k].pc = "stepWgDone"})
            = hist.started

C10_Witness ==
  /\ runPc = "returned" /\ ValidPipeline /\ NumSteps = 2
  /\ Step(0).WorkerCount = 2 /\ Step(1).WorkerCount = 1

\* C11: a Fetch error in a later step is isolated: the worker emits no URL for that
\* input and goes back to its loop, so that (without cancellation) every URL sent
\* to the input channel of a step with a Fetcher is received and fetched, and the
\* step's output is closed only after its input was closed and wholly fetched.
C11_FetchErrorIsolated ==
  /\ ~hist.emitOnFetchError
  /\ \A i \in 1 .. NumSteps - 1 :
       /\ hist.fetched[inputChanOfStep(i)] \sqsubseteq hist.sent[inputChanOfStep(i)]
       /\ (Step(i).Fetcher /\ ~ctxDone /\ chanClosed[getOutputChannelForStep(i)]) =>
            /\ chanClosed[inputChanOfStep(i)]
            /\ hist.fetched[inputChanOfStep(i)] = hist.sent[inputChanOfStep(i)]
       /\ (Step(i).Fetcher /\ ~ctxDone /\ runPc = "returned") =>
            /\ hist.fetched[inputChanOfStep(i)] = hist.sent[inputChanOfStep(i)]
            /\ chanClosed[getOutputChannelForStep(i)]

C11_Witness ==
  /\ runPc = "returned" /\ ~ctxDone /\ NumSteps = 2 /\ hist.fetchFailed
  /\ BagCardinality(hist.fetched[0]) = 2
  /\ BagCardinality(hist.sent[ContentChan]) >= 1

\* C12: a failure of ProcessContent or of SaveArticle is absorbed by the consumer:
\* SaveArticle is called exactly for the URLs whose ProcessContent succeeded, and
\* in a run that is not cancelled every URL sent to the sink channel is processed,
\* every one that was processed successfully is saved, and Run returns nil.
C12_SinkFailuresAbsorbed ==
  /\ hist.processedOk = hist.saves + Cardinality({w \in WorkerIds : cw[w].pc = "save"})
  /\ (\A w \in WorkerIds : cw[w].pc # "process") =>
       hist.processedOk <= BagCardinality(hist.processed)
  /\ (runPc = "returned" /\ ~ctxDone /\ NumSteps >= 1 /\ ConsumerConfigured) =>
       /\ hist.processed = hist.sent[ContentChan]
       /\ hist.saves = hist.processedOk
       /\ runErr = "nil"

C12_Witness ==
  /\ runPc = "returned" /\ ~ctxDone /\ hist.saveFailed
  /\ BagCardinality(hist.processed) >= 3
  /\ hist.processedOk < BagCardinality(hist.processed)
  /\ hist.saves >= 2

\* C13: when the producer of the first step returns an error, the first step
\* sends no URL and closes its output channel; no URL reaches any later step or
\* the consumer, nothing is saved, and (every later step having its Fetcher) all
\* workers end and Run returns nil.
C13_FirstStepErrorEndsRun ==
  /\ [](hist.firstErr =>
          /\ \A c \in ChanIds : hist.sent[c] = EmptyBag /\ chanBuf[c] = <<>>
          /\ hist.fetch = 0 /\ hist.processed = EmptyBag /\ hist.saves = 0
          /\ first.pc \in {"close", "wgDone", "done"}
          /\ first.pc \in {"wgDone", "done"} => chanClosed[firstStepOutput]
          /\ runPc = "returned" => runErr = "nil")
  /\ (hist.firstErr /\ \A i \in 1 .. NumSteps - 1 : Step(i).Fetcher)
       ~> (runPc = "returned" /\ runErr = "nil" /\ hist.saves = 0 /\ AllWorkersDone)

C13_Witness ==
  /\ hist.firstErr /\ runPc = "returned" /\ ~ctxDone /\ NumSteps = 2
  /\ Step(0).Generator /\ closer[1] = "done" /\ chanClosed[ContentChan]

\* C14: for a pipeline with at least one step Run never returns an error: not
\* after a failed Generate, Fetch, ProcessContent or SaveArticle, and not after a
\* cancellation.
C14_OnlyEmptyPipelineIsAnError ==
  NumSteps >= 1 =>
    /\ runErr \in {"none", "nil"}
    /\ runPc = "returned" => runErr = "nil"

C14_Witness ==
  /\ NumSteps = 2 /\ runPc = "returned" /\ ctxDone
  /\ hist.fetchFailed /\ hist.saveFailed
  /\ hist.processedOk < BagCardinality(hist.processed)

\* C15 (as claimed): Run on a pipeline whose first step has neither a Generator
\* nor a Fetcher returns an error.
C15_FirstStepWithoutProducerRejected ==
  (runPc = "returned" /\ NumSteps >= 1 /\ ~Step(0).Generator /\ ~Step(0).Fetcher) =>
    runErr # "nil"

\* C16: when the consumer's ContentProcessor or ContentSaver is nil, a content
\* worker that receives a URL makes no adapter call and saves nothing; it keeps
\* receiving, so in a run that is not cancelled the sink channel is drained, and
\* Run returns nil.
C16_UnconfiguredConsumerDrains ==
  (~contentConsumer.ContentProcessor \/ ~contentConsumer.ContentSaver) =>
    /\ hist.processed = EmptyBag /\ hist.processedOk = 0 /\ hist.saves = 0
    /\ \A w \in WorkerIds : cw[w].pc \in {"idle", "select", "done"}
    /\ (runPc = "returned" /\ ~ctxDone) =>
         /\ chanBuf[ContentChan] = <<>>
         /\ hist.rcvd[ContentChan] = hist.sent[ContentChan]
    /\ (runPc = "returned" /\ NumSteps >= 1) => runErr = "nil"

C16_Witness ==
  /\ contentConsumer.ContentProcessor /\ ~contentConsumer.ContentSaver
  /\ runPc = "returned" /\ ~ctxDone
  /\ BagCardinality(hist.rcvd[ContentChan]) >= 3

\* C17 (as claimed): Run starts the content workers, then the later steps from
\* the last one down to step 1, then the first step: when workers of a later step
\* have been started, so have those of every step after it.
C17_StartsLastStepFirst ==
  ValidPipeline =>
    \A j \in 1 .. NumSteps - 1 :
      SomeStepWorkerStarted(j) =>
        /\ SinkStarted
        /\ \A k \in j + 1 .. NumSteps - 1 : StepStarted(k)

\* C17 (amended): Run starts the content workers, then the later steps in
\* ascending order 1 .. N-1, then the first step; no URL is sent to a channel
\* before every worker that receives from it has been started.
C17_StartsStepsInAscendingOrder ==
  ValidPipeline =>
    /\ \A j \in 1 .. NumSteps - 1 :
         SomeStepWorkerStarted(j) =>
           /\ SinkStarted
           /\ \A k \in 1 .. j - 1 : StepStarted(k)
    /\ FirstStarted => (SinkStarted /\ \A j \in 1 .. NumSteps - 1 : StepStarted(j))
    /\ hist.sent[ContentChan] # EmptyBag => SinkStarted
    /\ \A j \in 1 .. NumSteps - 1 :
         hist.sent[inputChanOfStep(j)] # EmptyBag => StepStarted(j)

C17_Witness ==
  /\ NumSteps = 3 /\ StepStarted(1) /\ ~SomeStepWorkerStarted(2) /\ ~FirstStarted
  /\ SinkStarted

\* Channel c acts as a channel of capacity n: it never holds more than n URLs,
\* the send of a producer that stands at it is ready exactly when it holds fewer
\* than n, and a producer leaves a send it cannot make only when the scope is
\* cancelled.
HoldsCapacity(c, n) ==
  /\ Len(chanBuf[c]) <= n
  /\ (c = firstStepOutput /\ first.pc = "send") =>
       /\ ENABLED FirstStepSend <=> Len(chanBuf[c]) < n
       /\ ENABLED FirstStepSendCancelled => ctxDone
  /\ \A i \in 1 .. NumSteps - 1 : \A w \in 0 .. Step(i).WorkerCount - 1 :
       (getOutputChannelForStep(i) = c /\ sw[<<i, w>>].pc = "send") =>
         /\ ENABLED StepWorkerSend(i, w) <=> Len(chanBuf[c]) < n
         /\ ENABLED StepWorkerSendCancelled(i, w) => ctxDone

\* The channels between the steps and the sink channel act as createChannels made
\* them: the output of step i < NumSteps - 1 as a channel of capacity 100 for
\* i = 0 and of capacity 2 x steps[i].WorkerCount for i > 0, the sink channel as a
\* channel of capacity 2 x contentConsumer.WorkerCount.
ChannelsActAsCreated ==
  chanMade # {} =>
    /\ NumSteps >= 2 => HoldsCapacity(0, FirstChannelBuffer)
    /\ \A i \in 1 .. NumSteps - 2 : HoldsCapacity(i, 2 * Step(i).WorkerCount)
    /\ HoldsCapacity(ContentChan, 2 * contentConsumer.WorkerCount)

\* C18: in every pipeline the channel that the first step writes acts as a channel
\* of capacity 100, the output of a middle step i as one of capacity
\* 2 x steps[i].WorkerCount and the sink channel as one of capacity
\* 2 x contentConsumer.WorkerCount: none holds more URLs than that, and a producer
\* waits at a send exactly while its channel holds that many, until a consumer
\* receives or the scope is cancelled.
C18_FirstStepQueueHolds100 ==
  chanMade # {} =>
    /\ HoldsCapacity(firstStepOutput, FirstChannelBuffer)
    /\ \A i \in 1 .. NumSteps - 2 :
         HoldsCapacity(getOutputChannelForStep(i), 2 * Step(i).WorkerCount)
    /\ HoldsCapacity(ContentChan, 2 * contentConsumer.WorkerCount)

\* The first step of a single-step pipeline waits at its send with fewer than 100
\* URLs in the channel it writes.
C18_Witness ==
  /\ NumSteps = 1 /\ ~ctxDone /\ first.pc = "send"
  /\ Len(chanBuf[firstStepOutput]) = 2 * contentConsumer.WorkerCount
  /\ Len(chanBuf[firstStepOutput]) < FirstChannelBuffer
  /\ ~ENABLED FirstStepSend

\* The channels of the longer pipelines are filled: the first step waits with 100
\* URLs in channels[0].
FirstChannelFull ==
  /\ NumSteps = 2 /\ ~ctxDone /\ first.pc = "send"
  /\ Len(chanBuf[0]) = FirstChannelBuffer /\ ~ENABLED FirstStepSend

\* A worker of a middle step whose WorkerCount differs from the next step's waits
\* with 2 x its step's WorkerCount URLs in its output channel.
MiddleChannelFull(n) ==
  /\ NumSteps = 3 /\ ~ctxDone /\ Step(1).WorkerCount = n
  /\ Step(2).WorkerCount # n
  /\ Len(chanBuf[1]) = 2 * n
  /\ \E w \in 0 .. n - 1 : sw[<<1, w>>].pc = "send" /\ ~ENABLED StepWorkerSend(1, w)

\* C19: at every moment at most steps[i].WorkerCount calls of Fetch of step i are
\* in flight (one call of the producer for the first step), and at most
\* contentConsumer.WorkerCount calls of ProcessContent or SaveArticle.
C19_InFlightWithinWorkerCount ==
  /\ NumSteps >= 1 => (IF first.pc = "call" THEN 1 ELSE 0) <= Step(0).WorkerCount
  /\ \A i \in 1 .. NumSteps - 1 :
       Cardinality({w \in WorkerIds : sw[<<i, w>>].pc = "fetch"}) <= Step(i).WorkerCount
  /\ Cardinality({w \in WorkerIds : cw[w].pc \in {"process", "save"}})
       <= contentConsumer.WorkerCount

C19_Witness ==
  /\ NumSteps = 2 /\ Step(1).WorkerCount = 2
  /\ sw[<<1, 0>>].pc = "fetch" /\ sw[<<1, 1>>].pc = "fetch"

\* C20 (as claimed): in a valid pipeline, once the scope is cancelled no worker
\* of a later step sends a further URL to its output channel (none of the URLs it
\* holds for the input in flight) and no content worker starts to process a
\* further URL.
C20_NothingEmittedAfterCancel ==
  [][(ctxDone /\ ValidPipeline) =>
       /\ \A i \in 1 .. NumSteps - 1 :
            hist'.sent[getOutputChannelForStep(i)] = hist.sent[getOutputChannelForStep(i)]
       /\ hist'.processed = hist.processed]_vars

\* C21: the first step calls its producer exactly once, whatever its WorkerCount:
\* Generate when a Generator is set (its Fetcher is then never called), else
\* Fetch, with the baseURL given to Run.
C21_FirstStepCallsProducerOnce ==
  NumSteps >= 1 =>
    /\ hist.generate + hist.fetchFirst <= 1
    /\ Step(0).Generator => hist.fetchFirst = 0
    /\ ~Step(0).Generator => hist.generate = 0
    /\ hist.fetchFirstArgs \subseteq {BaseURL}
    /\ hist.fetchFirst = Cardinality(hist.fetchFirstArgs)
    /\ (first.pc \notin {"idle", "call"} /\ Step(0).Generator) => hist.generate = 1
    /\ (first.pc \notin {"idle", "call"} /\ ~Step(0).Generator /\ Step(0).Fetcher) =>
         hist.fetchFirst = 1
    /\ runPc = "returned" => first.pc = "done"

C21_Witness ==
  /\ runPc = "returned" /\ NumSteps = 2 /\ Step(0).WorkerCount = 2
  /\ Step(0).Generator /\ Step(0).Fetcher
  /\ hist.generate = 1 /\ BagCardinality(hist.sent[firstStepOutput]) = 2

\* C22: URLs flow along the chain of steps: what step i sends is received only
\* by step i+1, and by the content workers when i is the last step (a single step
\* sends straight to the sink channel); every channel has one sending step and
\* one receiving step, and the content workers receive only what the last step sent.
C22_LinearFlow ==
  /\ \A c \in ChanIds :
       /\ \A s \in hist.sentBy[c], r \in hist.rcvdBy[c] : r = s + 1
       /\ Cardinality(hist.sentBy[c]) <= 1 /\ Cardinality(hist.rcvdBy[c]) <= 1
       /\ NumSteps \in hist.rcvdBy[c] => (c = ContentChan /\ hist.sentBy[c] = {NumSteps - 1})
       /\ hist.rcvdBy[c] # {} => hist.sentBy[c] # {}
  /\ \A c \in ChanIds, d \in ChanIds :
       c # d => (hist.sentBy[c] \cap hist.sentBy[d] = {}
                 /\ hist.rcvdBy[c] \cap hist.rcvdBy[d] = {})
  /\ (NumSteps = 1 /\ hist.sent[ContentChan] # EmptyBag) => hist.sentBy[ContentChan] = {0}

C22_Witness ==
  /\ NumSteps = 3 /\ runPc = "returned" /\ ~ctxDone
  /\ hist.rcvdBy[0] = {1} /\ hist.rcvdBy[1] = {2} /\ hist.rcvdBy[ContentChan] = {3}

\* C29 (as claimed): in a valid pipeline, whenever the output channel of a later
\* step is closed, its input channel is closed and holds no URL.
C29_OutputClosedAfterInputDrained ==
  ValidPipeline =>
    \A i \in 1 .. NumSteps - 1 :
      chanClosed[getOutputChannelForStep(i)] =>
        (chanClosed[inputChanOfStep(i)] /\ chanBuf[inputChanOfStep(i)] = <<>>)

\* C29 (amended): the same in a run that is not cancelled: there a worker of a
\* later step ends only when it finds its input channel closed and drained, and
\* the output channel is closed only after every worker of the step has ended, so
\* that the input holds no URL when the output is closed.
C29_OutputClosedAfterInputDrainedUnlessCancelled ==
  /\ [](ValidPipeline =>
          \A i \in 1 .. NumSteps - 1 :
            chanClosed[getOutputChannelForStep(i)] =>
              /\ \A w \in 0 .. Step(i).WorkerCount - 1 : sw[<<i, w>>].pc = "done"
              /\ ~ctxDone =>
                   (chanClosed[inputChanOfStep(i)] /\ chanBuf[inputChanOfStep(i)] = <<>>))
  /\ [][\A i \in 1 .. NumSteps - 1, w \in WorkerIds :
          (~StepWorkerReturned(i, w) /\ StepWorkerReturned(i, w)' /\ ~ctxDone) =>
            (/\ sw[<<i, w>>].pc = "select"
             /\ chanClosed[inputChanOfStep(i)] /\ chanBuf[inputChanOfStep(i)] = <<>>)]_vars

C29_Witness ==
  /\ NumSteps = 2 /\ ValidPipeline /\ Step(1).WorkerCount = 2 /\ ~ctxDone
  /\ chanClosed[ContentChan] /\ closer[1] = "done"
  /\ BagCardinality(hist.fetched[0]) = 2

\* C23: a URL that a filter of the fetcher in front of the consumer rejects (for
\* an AlreadyFetchedFilter: a URL of the set it was made with) is never sent to
\* the sink channel and never handed to ContentProcessor.
C23_RejectedURLsNeverReachSink ==
  \A j \in 1 .. Len(filters) :
    \A u \in filters[j].rejects :
      /\ CopiesIn(u, hist.sent[ContentChan]) = 0
      /\ CopiesIn(u, hist.processed) = 0
      /\ \A k \in 1 .. Len(chanBuf[ContentChan]) : chanBuf[ContentChan][k] # u

C23_Witness ==
  /\ filters = <<AlreadyFetchedFilter({"u1"})>>
  /\ NumSteps = 2 /\ runPc = "returned" /\ ~ctxDone
  /\ CopiesIn("u2", hist.processed) = 2
  /\ BagCardinality(hist.sent[0]) = 2

\* C24 as stated: when no filter returns an error, BasicUrlFetcher.Fetch and
\* filter.FilterURLs both return exactly the URLs with a non-empty location that
\* every filter keeps, in their order and with their multiplicity.
C24_BothDropEmptyLocations ==
  /\ (bf.pc \in {"fetched", "done"} /\ ~bf.under.err
        /\ ~SomeFilterFails(NonEmptyLocations(bf.under.urls))) =>
       bf.result.urls = KeptLocations(bf.under.urls)
  /\ (bf.pc = "done" /\ ~SomeFilterFails(bf.under.urls)) =>
       bf.filtered.urls = KeptLocations(bf.under.urls)

\* C24: when no filter returns an error, BasicUrlFetcher.Fetch returns exactly
\* the non-empty Locations that every filter keeps, in their order and with their
\* multiplicity, and FilterURLs the strings of its list, the empty one included,
\* that every filter keeps; the filters are asked in list order and none is
\* asked about a URL after one returned false for it.
C24_FetchKeepsWhatAllFiltersKeep ==
  /\ (bf.pc \in {"fetched", "done"} /\ ~bf.under.err
        /\ ~SomeFilterFails(NonEmptyLocations(bf.under.urls))) =>
       /\ ~bf.result.err /\ ~bf.result.isNil
       /\ bf.result.urls = KeptLocations(bf.under.urls)
       /\ bf.result.calls = InvocationsForAll(NonEmptyLocations(bf.under.urls))
  /\ (bf.pc = "done" /\ ~SomeFilterFails(bf.under.urls)) =>
       /\ ~bf.filtered.err
       /\ bf.filtered.urls = KeptURLs(bf.under.urls)
       /\ bf.filtered.calls = InvocationsForAll(bf.under.urls)
  /\ (bf.pc = "done" /\ ~bf.under.err /\ ~bf.result.err) =>
       bf.result.urls = FilterURLs(NonEmptyLocations(bf.under.urls), filters).urls

C24_Witness ==
  /\ bf.pc = "done" /\ Len(filters) = 2 /\ ~bf.result.err
  /\ bf.under.urls = <<"u2", NoURL, "u2">>
  /\ bf.result.urls = <<"u2", "u2">>
  /\ Len(bf.result.calls) = 4

\* C25: a filter error makes BasicUrlFetcher.Fetch return a nil list with an
\* error, whatever URLs had passed before, so that the step worker sends nothing
\* for that input; the worker goes on with the other inputs: in a run that is not
\* cancelled every URL sent to the step is fetched, the step's output is closed
\* and Run returns nil.
C25_FilterErrorDropsWholeFetch ==
  /\ \A under \in FetchOutcomes :
       (~under.err /\ SomeFilterFails(NonEmptyLocations(under.urls))) =>
         /\ Fetch(under, filters).err
         /\ Fetch(under, filters).isNil
         /\ Fetch(under, filters).urls = <<>>
  /\ ~hist.filterErrorWithResult
  /\ hist.filterFailed => ~hist.emitOnFetchError
  /\ (hist.filterFailed /\ NumSteps = 2 /\ ~ctxDone /\ runPc = "returned") =>
       /\ hist.fetched[inputChanOfStep(1)] = hist.sent[inputChanOfStep(1)]
       /\ chanClosed[getOutputChannelForStep(1)]
       /\ runErr = "nil"

C25_Witness ==
  /\ hist.filterFailed /\ NumSteps = 2 /\ ~ctxDone /\ runPc = "returned"
  /\ BagCardinality(hist.fetched[0]) = 2
  /\ BagCardinality(hist.sent[ContentChan]) >= 1
  /\ \E w \in WorkerIds : sw[<<1, w>>].pc = "done"

\* C26: a call of Generate that returns without the cancellation error returns
\* exactly the URLs of the pages 1 .. K in ascending order, K the last page such
\* that every HEAD up to it answered 200 and no content check of a tenth page up
\* to it found an empty-content marker; a call that the scope's cancellation
\* does not reach returns no error; no URL and no error when page 1 is not 200.
C26_GenerateReturnsPagesUpToK ==
  /\ (gen.pc = "returned" /\ gen.err = "nil") =>
       gen.allPageURLs = PageURLs(LastPage(gen.site))
  /\ (gen.pc = "returned" /\ ~ctxDone) => gen.err = "nil"
  /\ (gen.pc = "returned" /\ gen.err = "nil" /\ gen.site.lastOk = 0) =>
       gen.allPageURLs = <<>>

C26_Witness ==
  /\ gen.pc = "returned" /\ ~ctxDone /\ gen.err = "nil"
  /\ gen.site.lastOk = 21 /\ gen.site.content[10] = "error"
  /\ gen.site.content[20] = "marker"
  /\ Len(gen.allPageURLs) = 19
  /\ gen.allPageURLs[19] = "https://site.com/page/19"

\* C27: once the scope is cancelled, the next pass of Generate through the top of
\* its loop returns the URLs accumulated so far (none before the first page) with
\* the cancellation error; the first step then sends nothing, closes its output
\* channel once, and Run returns nil.
C27_GenerateStopsAtNextIteration ==
  /\ [](gen.err = "context canceled" =>
          /\ ctxDone /\ gen.pc = "returned"
          /\ gen.allPageURLs = PageURLs(gen.currentPage - 1)
          /\ first.pc \in {"wgDone", "done"} =>
               /\ chanClosed[firstStepOutput]
               /\ hist.closes[firstStepOutput] = 1
               /\ hist.sent[firstStepOutput] = EmptyBag
          /\ runPc = "returned" => runErr = "nil" /\ chanClosed[firstStepOutput])
  /\ [][(gen.pc = "loop" /\ ctxDone /\ gen' # gen) =>
          /\ gen'.pc = "returned" /\ gen'.err = "context canceled"
          /\ gen'.allPageURLs = gen.allPageURLs]_vars
  /\ (gen.pc = "loop" /\ ctxDone) ~>
       (runPc = "returned" /\ runErr = "nil" /\ gen.err = "context canceled")

C27_Witness ==
  /\ runPc = "returned" /\ runErr = "nil" /\ gen.err = "context canceled"
  /\ Len(gen.allPageURLs) = MaxPipelinePage
  /\ chanClosed[firstStepOutput]
  /\ hist.sent[firstStepOutput] = EmptyBag

\* C28 as stated: when Run has returned twice, the store holds what it held
\* after the first run.
C28_SecondRunLeavesStoreUnchangedAlways ==
  (store.pc = "second" /\ runPc = "returned") => store.articles = store.afterFirst

\* C28: with adapters that return the same in both runs and a store that upserts
\* by URL, the store holds at most one record per URL, and when the first run was
\* not cancelled the second run leaves the store as the first run left it: with
\* one record for each URL that reached the consumer and was processed and saved
\* without error.
C28_SecondRunLeavesStoreUnchanged ==
  /\ \A u \in TwiceURLs : store.pc # "idle" => CopiesIn(u, store.articles) <= 1
  /\ (store.pc = "second" /\ ~store.firstCancelled) =>
       store.articles = store.afterFirst
  /\ (store.pc = "second" /\ runPc = "returned" /\ ~ctxDone /\ ~store.firstCancelled) =>
       BagToSet(store.articles) =
         BagToSet(hist.processed) \cap store.processOk \cap store.saveOk

C28_Witness ==
  /\ store.pc = "second" /\ runPc = "returned" /\ ~ctxDone /\ ~store.firstCancelled
  /\ BagCardinality(store.articles) = 2
  /\ hist.saves = 3
  /\ store.afterFirst = store.articles

\* C30 as stated: ParseFromURL returns without error exactly when the sitemap
\* tree lists at least one URL, and then returns the URLs of the tree in index
\* order, the children that fail being skipped.
C30_SuccessIffSomeURL ==
  sm.pc \in {"parsed", "done"} =>
    /\ ~sm.urls.err <=> DiscoveredURLs(sm.doc, SitemapURL) # <<>>
    /\ ~sm.urls.err => sm.urls.urls = DiscoveredURLs(sm.doc, SitemapURL)

\* C30: for a sitemap index ParseFromURL returns without error exactly when the
\* tree under it lists at least one URL; a regular sitemap that decodes returns
\* without error even when it lists none; every successful parse returns the
\* URLs of the tree in index order, children that fail being skipped.
C30_IndexSucceedsIffSomeURL ==
  sm.pc \in {"parsed", "done"} =>
    /\ sm.doc.kind = "index" =>
         (~sm.urls.err <=> DiscoveredURLs(sm.doc, SitemapURL) # <<>>)
    /\ sm.doc.kind = "urlset" => ~sm.urls.err
    /\ sm.doc.kind = "error" => sm.urls.err
    /\ ~sm.urls.err => sm.urls.urls = DiscoveredURLs(sm.doc, SitemapURL)
    /\ (sm.pc = "done" /\ ~sm.entries.err) =>
         sm.entries.urls = DiscoveredURLs(sm.doc, SitemapURL)

C30_Witness ==
  /\ sm.pc = "done" /\ ~sm.urls.err
  /\ sm.doc.kind = "index" /\ Len(sm.doc.refs) = 2
  /\ sm.doc.refs[1].hasLocation /\ sm.doc.refs[1].doc.kind = "error"
  /\ sm.doc.refs[2].hasLocation /\ sm.doc.refs[2].doc.kind = "index"
  /\ sm.urls.urls = <<"https://site.com/sitemap.xml/2/1/2", "https://site.com/sitemap.xml/2/2/1">>

\* C31: ProcessContent returns an error and a nil article whenever the response
\* status is not 200, the body is empty or only white space, or the body is the
\* error page "Not Acceptable"; it never returns both an article and an error;
\* and on success the article carries the input URL and a crawled_at time.
C31_ProcessContentErrorContract ==
  cp.pc = "returned" =>
    LET r == cp.result
        body == cp.resp.body
        rejected ==
          \/ cp.resp.status # StatusOK
          \/ \A i \in 1..Len(body) : body[i] \in WhiteSpace
          \/ TrimSpace(body) = <<Marker>>
    IN  /\ (cp.resp.transport = "ok" /\ rejected) => (r.err # "nil" /\ r.isNil)
        /\ ~(~r.isNil /\ r.err # "nil")
        /\ r.err = "nil" =>
             /\ ~r.isNil
             /\ r.article.url = cp.url
             /\ r.article.crawledAt # "zero"

C31_Witness ==
  /\ cp.pc = "returned"
  /\ cp.resp.transport = "ok"
  /\ cp.resp.status = StatusOK
  /\ ~cp.resp.readFails
  /\ cp.resp.body = <<" ", Marker>>
  /\ cp.result.isNil
  /\ cp.result.err =
       "failed to fetch HTML: server returned error or empty response (status: 200)"

\* C32: after ReplicateArticlesMongoToPostgres has succeeded, every article of
\* the source with a non-empty URL has a row in the target table and every row
\* that was there before the run is unchanged (an article whose URL already has
\* a row is skipped, not written over); an article with an empty URL is never
\* inserted.
C32_ReplicationCoversAndPreserves ==
  /\ "" \notin DOMAIN rep.table
  /\ (rep.pc = "returned" /\ rep.err = "nil") =>
       /\ \A i \in 1..Len(rep.articles) :
            rep.articles[i].url # "" => rep.articles[i].url \in DOMAIN rep.table
       /\ \A u \in DOMAIN rep.before :
            u \in DOMAIN rep.table /\ rep.table[u] = rep.before[u]

C32_Witness ==
  /\ rep.pc = "returned"
  /\ rep.err = "nil"
  /\ rep.parallel
  /\ Len(rep.articles) = 101
  /\ rep.totalInserted > 0
  /\ \E i \in 1..Len(rep.articles) :
       /\ rep.articles[i].url \in DOMAIN rep.before
       /\ rep.table[rep.articles[i].url] = "old"
  /\ \E i \in 1..Len(rep.articles) : rep.articles[i].url = ""

\* C39, first part: the batches of processBatches are contiguous chunks of at
\* most 100 articles that cover every index exactly once, each batch is taken
\* by exactly one of the 5 goroutines, no goroutine waits on the results
\* channel, and a failed batch makes processBatches return an error.
C39_BatchesPartitionAndReport ==
  (rep.parallel /\ rep.pc \in {"collect", "returned"} /\ rep.closer # "none") =>
    LET n == Len(rep.articles)
        taken == [k \in 1..Len(rep.takenBy) |-> rep.takenBy[k][1]]
        waiting == [k \in 1..Len(rep.jobs) |-> rep.jobs[k].start]
        all == batchJobs(0, n)
    IN  /\ taken \o waiting = [k \in 1..Len(all) |-> all[k].start]
        /\ \A k \in 1..Len(all) :
             /\ all[k].start < all[k].end
             /\ all[k].end - all[k].start <= 100
        /\ \A idx \in 0..(n - 1) :
             Cardinality({k \in 1..Len(all) :
                            all[k].start <= idx /\ idx < all[k].end}) = 1
        /\ \A k \in 1..Len(rep.takenBy) : rep.takenBy[k][2] \in 1..5
        /\ \A w \in RepWorkers :
             rep.workers[w].pc = "send" => Len(rep.results) < rep.resultsCap
        /\ (rep.pc = "returned" /\ rep.faults > 0) =>
             \E k \in 1..Len(all) :
               rep.err \in {"check existing URLs for batch " \o BatchRange(all[k])
                              \o ": query existing urls: connection lost",
                            "insert batch " \o BatchRange(all[k])
                              \o ": commit: connection lost"}

\* C39: the above, and no batch insert is started after processBatches has
\* returned.
C39_NoInsertAfterReturn ==
  /\ C39_BatchesPartitionAndReport
  /\ (rep.parallel /\ rep.closer # "none") => ~rep.insertAfterReturn

\* C33: when MaxPages > 0, the page ranges sent to the URL fetchers cover no
\* more than MaxPages pages in total, whatever PagesPerBatch >= 1 is.
C33_RangesWithinMaxPages ==
  (tl.pc # "ready" /\ tl.config.maxPages > 0) =>
    PagesCovered(tl.sentRanges) <= tl.config.maxPages

\* C36: the page-range channel is closed at most once, by the range generator
\* only, and the URL channel at most once, when every URL fetcher has returned;
\* nothing is ever sent on a closed channel; ProcessPaginatedPages returns only
\* when every content worker has returned; and with or without cancellation
\* both channels end up closed, each exactly once.
C36_Closes ==
  /\ tl.pageRangeCloses \in {<<>>, <<"generator">>}
  /\ tl.pageRangeClosed <=> tl.pageRangeCloses # <<>>
  /\ tl.urlCloses = (IF tl.urlClosed THEN 1 ELSE 0)
  /\ tl.urlClosed => \A w \in DOMAIN tl.fetchers : tl.fetchers[w].pc = "done"
  /\ ~tl.sendOnClosed
  /\ tl.pc = "returned" =>
       /\ tl.urlClosed
       /\ \A w \in DOMAIN tl.workers : tl.workers[w] = "done"

C36_ChannelsClosedOnce ==
  /\ []C36_Closes
  /\ <>[](tl.pageRangeCloses = <<"generator">> /\ tl.urlCloses = 1
          /\ tl.pc = "returned")

C36_Witness ==
  /\ tl.pc = "returned"
  /\ tl.ctxDone
  /\ tl.config.urlFetcherWorkers = 2
  /\ tl.config.contentWorkers = 2
  /\ Len(tl.sentRanges) >= 2
  /\ tl.urlChan # <<>>
  /\ tl.pageRangeCloses = <<"generator">>
  /\ tl.urlCloses = 1

\* C34: in Generate, a transport error of the HEAD of page k is the end of the
\* pagination: Generate returns the pages 1 .. k-1 with a nil error; an error of
\* the content check of a tenth page (GET failure or a status other than 200)
\* does not stop it: that page is emitted and the loop goes on with page k+1.
C34_HeadErrorEndsContentErrorContinues ==
  /\ [][(/\ gen.pc = "head"
         /\ gen.currentPage = gen.site.lastOk + 1
         /\ gen.site.headEnd = "error"
         /\ gen' # gen) =>
          /\ gen'.pc = "returned"
          /\ gen'.err = "nil"
          /\ gen'.allPageURLs = PageURLs(gen.currentPage - 1)]_vars
  /\ [][(/\ gen.pc = "content"
         /\ gen.site.content[gen.currentPage] = "error"
         /\ gen' # gen) =>
          /\ gen'.pc = "loop"
          /\ gen'.currentPage = gen.currentPage + 1
          /\ gen'.allPageURLs = PageURLs(gen.currentPage)]_vars

C34_Witness ==
  /\ gen.pc = "returned"
  /\ gen.err = "nil"
  /\ ~ctxDone
  /\ gen.site.headEnd = "error"
  /\ gen.site.lastOk = 11
  /\ gen.site.content[10] = "error"
  /\ gen.allPageURLs = PageURLs(11)

\* C35: in a pipeline where a step after the first has no Fetcher, Run still
\* terminates without cancellation: as long as Run has not returned and the
\* scope is not cancelled, Run or one of its goroutines can take a step (nobody
\* waits for ever on a queue that is never closed or never read).
C35_RunTerminatesWithoutFetcher ==
  (/\ \E i \in 1 .. NumSteps - 1 : ~Step(i).Fetcher
   /\ ~ctxDone
   /\ runPc \notin {"idle", "returned"}) => ENABLED ProgramStep

\* C37: ProcessURLs with workerCount >= 1 hands every input URL, as often as it
\* is in the list, to Worker.ProcessURL exactly once; no worker waits on the
\* results channel; at the return success + error = len(urls), and the result
\* is an error exactly when at least one URL failed and none succeeded (nil for
\* an empty list); and it always terminates.
C37_EveryURLOnce ==
  LET given(u) == Cardinality({i \in 1..Len(mgr.urls) : mgr.urls[i] = u})
      called(u) ==
        BagCardinality([r \in {x \in BagToSet(mgr.calls) : x.url = u} |-> mgr.calls[r]])
  IN  /\ \A u \in {"u1", "u2"} : called(u) <= given(u)
      /\ \A r \in BagToSet(mgr.calls) : r.workerID \in 0..(mgr.workerCount - 1)
      /\ \A w \in DOMAIN mgr.workers :
           (mgr.withResults /\ mgr.workers[w].pc = "report") =>
             Len(mgr.resultsChan) < Len(mgr.urls)
      /\ mgr.pc = "returned" =>
           /\ \A u \in {"u1", "u2"} : called(u) = given(u)
           /\ mgr.successCount + mgr.errorCount = Len(mgr.urls)
           /\ mgr.errorCount = mgr.failed
           /\ mgr.err # "nil" <=> (mgr.failed >= 1 /\ mgr.failed = Len(mgr.urls))
           /\ mgr.urls = <<>> => mgr.err = "nil"

C37_ProcessURLsTerminates ==
  /\ []C37_EveryURLOnce
  /\ <>[](mgr.pc = "returned")

C37_Witness ==
  /\ mgr.pc = "returned"
  /\ mgr.withResults
  /\ mgr.urls = <<"u1", "u2", "u1">>
  /\ mgr.workerCount = 2
  /\ mgr.failed = 3
  /\ mgr.err = "all 3 URLs failed to process"
  /\ \E r, q \in BagToSet(mgr.calls) : r.workerID # q.workerID

\* C38, the part on the jobs channel and the workers: the channel is closed at
\* most once, and exactly once when the call that made it has returned, on the
\* normal and on the cancelled path; nothing is sent on it after the close; each
\* episode URL goes to at most one worker; the call returns only when every
\* worker has left; and when it returns nil every URL was processed, whatever
\* failed.
C38_JobsChannelDiscipline ==
  /\ pod.closes <= 1
  /\ pod.jobsClosed <=> pod.closes = 1
  /\ ~pod.sendOnClosed
  /\ \A j, k \in 1..Len(pod.received) :
       pod.received[j].index = pod.received[k].index => j = k
  /\ pod.pc = "returned" =>
       /\ pod.jobsMade => pod.closes = 1
       /\ \A w \in DOMAIN pod.worker : pod.jobsMade => pod.worker[w].pc = "done"
       /\ pod.err = "nil" =>
            pod.processed = {pod.episodeURLs[i] : i \in 1..Len(pod.episodeURLs)}

\* C38 as amended: the above; the call returns nil exactly when every URL was
\* dispatched, and otherwise the context error, which it does only when it was
\* cancelled before that.
C38_NilIffAllDispatched ==
  /\ C38_JobsChannelDiscipline
  /\ pod.pc = "returned" =>
       /\ pod.err \in {"nil", "context canceled"}
       /\ pod.err = "nil" <=> pod.next > Len(pod.episodeURLs)
       /\ pod.err = "context canceled" =>
            (pod.ctxDone /\ pod.cancelledAt <= Len(pod.episodeURLs))

\* C38 as stated: the above part; the call returns nil when every URL was
\* dispatched, and the context error when it was cancelled before that.
C38_CancelledEarlyReturnsContextError ==
  /\ C38_JobsChannelDiscipline
  /\ pod.pc = "returned" =>
       /\ pod.next > Len(pod.episodeURLs) => pod.err = "nil"
       /\ (pod.ctxDone /\ pod.cancelledAt <= Len(pod.episodeURLs)) =>
            pod.err = "context canceled"

C38_Witness ==
  /\ pod.pc = "returned"
  /\ pod.ctxDone
  /\ Len(pod.episodeURLs) = 3
  /\ pod.cancelledAt = 3
  /\ pod.workers = 2
  /\ pod.err = "context canceled"
  /\ pod.closes = 1
  /\ pod.failed = {"episode1"}
  /\ pod.processed = {"episode1", "episode2"}

\* C40: ParseFromURL terminates for every finite set of sitemap documents, also
\* when an index refers to itself, directly or through other indexes: no
\* sitemap is fetched again inside its own parse (the documents being the same
\* at every fetch, such a call would repeat itself without end), so the calls
\* never nest deeper than there are sitemaps.
C40_NoSitemapParsedInsideItself ==
  sm.pc = "running" =>
    /\ \A j, k \in 1..Len(sm.stack) : sm.stack[j].url = sm.stack[k].url => j = k
    /\ Len(sm.stack) <= Cardinality(SitemapURLs)

====
